---- MODULE Spec2Model ----
(***************************************************************************)
(* react-use-fittext: the font-size search of utils.ts                     *)
(* (calculateOptimalFontSize and its helpers) with the process-wide        *)
(* fontSizeCache, the Date.now() clock and the probe clones attached to    *)
(* document.body.                                                          *)
(*                                                                         *)
(* Numbers.  A JavaScript `number` that is a length in px (font sizes,     *)
(* resolution, container sizes, measured sizes) is held in fixed point:    *)
(* the integer n stands for n / Unit px.  Unit is a power of two large     *)
(* enough that every midpoint (low + high) / 2 of MAX_ITERATIONS halvings  *)
(* of inputs given in quarter pixels is exact, as it is in IEEE doubles.   *)
(* Times are integers in ms.                                               *)
(***************************************************************************)
EXTENDS Integers, Sequences, FiniteSets, TLC

VARIABLES
    fontSizeCache,   \* utils.ts: Map<string, CacheEntry>, as a function key -> entry
    clock,           \* the value Date.now() returns
    bodyChildren,    \* number of probe clones attached to document.body
    last,            \* observation of the most recent calculateOptimalFontSize call
    textStyle,       \* inline style of the text element (element.style)
    fitCheck,        \* observation of the most recent direct sizeFits call
    spaceCheck,      \* observation of the most recent direct getAvailableContentSpace call
    \* a component that uses useFitText, and its two elements
    mounted,             \* the component is mounted
    render,              \* what the callbacks of the latest render close over:
                         \* the options and the fontSize state of that render
    fontSize,            \* useState: the value of the latest setFontSize
    containerRef,        \* containerRef.current is an element (not null)
    textRef,             \* textRef.current is an element (not null)
    container,           \* the container element: clientWidth/Height and paddings
    textEl,              \* the text element: its text and how it renders
    calculatingRef,
    prevDimensionsRef,
    prevTextContentRef,
    timers,              \* pending setTimeout callbacks: [id, due, setAt]
    debounceTimerRef,    \* id of a timer, 0 for null
    frames,              \* pending requestAnimationFrame callbacks: [id, since]
    frameRef,            \* id of a frame, 0 for null
    observers,           \* number of ResizeObservers observing the container
    resizeObserverRef,   \* "null", or whether the observer it holds is connected
    pending,             \* effects of the latest commit that have not run yet
    note,                \* observation of the latest calculateFontSize invocation
    burst,               \* observation of the latest resize notification
    events               \* number of events the page and the parent have caused

utilsVars == <<fontSizeCache, clock, bodyChildren, last>>

hookVars ==
    <<mounted, render, fontSize, containerRef, textRef, container, textEl,
      calculatingRef, prevDimensionsRef, prevTextContentRef, timers, debounceTimerRef,
      frames, frameRef, observers, resizeObserverRef, pending, note, burst, events>>

\* the observations of direct calls of the helpers
checkVars == <<fitCheck, spaceCheck>>

vars == <<fontSizeCache, clock, bodyChildren, last, textStyle, checkVars, hookVars>>

-----------------------------------------------------------------------------
(* Program constants *)

CACHE_LIFETIME_MS == 30000
MAX_ITERATIONS == 20

-----------------------------------------------------------------------------
(* Fixed-point representation of `number` *)

Unit == 2^22                 \* model integers per px
Px(n) == n * Unit            \* n px
HalfPx(n) == n * (Unit \div 2)   \* n/2 px
QuarterPx(n) == n * (Unit \div 4)

Max2(a, b) == IF a >= b THEN a ELSE b      \* Math.max
Min2(a, b) == IF a <= b THEN a ELSE b      \* Math.min

\* Math.round on a fixed-point px value: nearest integer, halves rounded up
MathRound(x) == (x + (Unit \div 2)) \div Unit

\* floor(sqrt(x)) for a natural x
RECURSIVE SqrtSearch(_, _, _)
SqrtSearch(x, lo, hi) ==
    IF lo >= hi THEN lo
    ELSE LET m == (lo + hi + 1) \div 2
         IN IF m * m <= x THEN SqrtSearch(x, m, hi) ELSE SqrtSearch(x, lo, m - 1)

SqrtCap == 2^15
ISqrt(x) == SqrtSearch(x, 0, Min2(x, SqrtCap))

\* decimal digits of a natural number, as character codes 48..57
RECURSIVE Digits(_)
Digits(n) == IF n < 10 THEN <<48 + n>> ELSE Digits(n \div 10) \o <<48 + (n % 10)>>

\* parseFloat(string) for strings without an exponent part: white space is
\* skipped, then the longest prefix of the form [+-] digits [. digits] is
\* read; a string without a digit there gives NaN.  The value is in fixed
\* point: decimals below 1 / Unit px are cut off.
RECURSIVE ReadDigits(_, _, _)
ReadDigits(s, i, acc) ==
    IF i <= Len(s) /\ s[i] \in 48..57
    THEN ReadDigits(s, i + 1, [acc EXCEPT !.value = @ * 10 + (s[i] - 48), !.count = @ + 1])
    ELSE [acc EXCEPT !.next = i]

RECURSIVE SkipSpaces(_, _)
SkipSpaces(s, i) == IF i <= Len(s) /\ s[i] \in {9, 10, 13, 32} THEN SkipSpaces(s, i + 1) ELSE i

NaN == [nan |-> TRUE, value |-> 0]

parseFloat(s) ==
    LET start == SkipSpaces(s, 1)
        signed == start <= Len(s) /\ s[start] \in {43, 45}
        sign == IF signed /\ s[start] = 45 THEN -1 ELSE 1
        first == IF signed THEN start + 1 ELSE start
        whole == ReadDigits(s, first, [value |-> 0, count |-> 0, next |-> first])
        dotted == whole.next <= Len(s) /\ s[whole.next] = 46
        frac == IF dotted
                THEN ReadDigits(s, whole.next + 1,
                                [value |-> 0, count |-> 0, next |-> whole.next + 1])
                ELSE [value |-> 0, count |-> 0, next |-> whole.next]
    IN IF whole.count + frac.count = 0 THEN NaN
       ELSE [nan |-> FALSE,
             value |-> sign * (Px(whole.value) + (Px(frac.value) \div (10 ^ frac.count)))]

\* parseFloat(...) || 0: NaN and 0 are falsy
OrZero(parsed) == IF parsed.nan \/ parsed.value = 0 THEN 0 ELSE parsed.value

-----------------------------------------------------------------------------
(* Text elements and their measurement.                                    *)
(* An element is [textContent, widthMultiplier, heightMultiplier]: its     *)
(* text (a sequence of character codes) and how its rendered box grows     *)
(* with the font size, as in the tests' createMockWithScrollBehavior.      *)

\* clone.scrollWidth / clone.scrollHeight after clone.style.fontSize = size
Measure(el, size) ==
    [width |-> el.widthMultiplier * size, height |-> el.heightMultiplier * size]

-----------------------------------------------------------------------------
(* utils.ts *)

\* the subtraction without Math.max(0, ...)
getAvailableContentSpaceUnclamped(element) ==
    LET paddingLeft == OrZero(parseFloat(element.paddingLeft))
        paddingRight == OrZero(parseFloat(element.paddingRight))
        paddingTop == OrZero(parseFloat(element.paddingTop))
        paddingBottom == OrZero(parseFloat(element.paddingBottom))
    IN [width |-> element.clientWidth - paddingLeft - paddingRight,
        height |-> element.clientHeight - paddingTop - paddingBottom]

getAvailableContentSpace(element) ==
    LET paddingLeft == OrZero(parseFloat(element.paddingLeft))
        paddingRight == OrZero(parseFloat(element.paddingRight))
        paddingTop == OrZero(parseFloat(element.paddingTop))
        paddingBottom == OrZero(parseFloat(element.paddingBottom))
        availableWidth == element.clientWidth - paddingLeft - paddingRight
        availableHeight == element.clientHeight - paddingTop - paddingBottom
    IN [width |-> Max2(0, availableWidth), height |-> Max2(0, availableHeight)]

\* the comparison with < for <=
sizeFitsStrictly(textSize, containerWidth, containerHeight, fitMode) ==
    LET fitsWidth == fitMode = "height" \/ textSize.width < containerWidth
        fitsHeight == fitMode = "width" \/ textSize.height < containerHeight
    IN fitsWidth /\ fitsHeight

sizeFits(textSize, containerWidth, containerHeight, fitMode) ==
    LET fitsWidth == fitMode = "height" \/ textSize.width <= containerWidth
        fitsHeight == fitMode = "width" \/ textSize.height <= containerHeight
    IN fitsWidth /\ fitsHeight

\* One measurement of the clone at `size`, the (Len(probes)+1)-th of the call.
\* m = [probes, failAt]: sizes measured so far and the index of the
\* measurement whose scrollWidth read throws (0: none throws).
Throws(m) == Len(m.probes) + 1 = m.failAt
Probed(m, size) == [m EXCEPT !.probes = Append(@, size)]

Returned(size, m) == [size |-> size, probes |-> m.probes, threw |-> FALSE]
Thrown(m) == [size |-> -1, probes |-> m.probes, threw |-> TRUE]

RECURSIVE SearchLoop(_, _, _, _, _, _, _, _, _, _)
SearchLoop(el, low, high, resolution, containerWidth, containerHeight, fitMode, bestSize, iterations, m) ==
    IF ~(iterations < MAX_ITERATIONS /\ high - low > resolution)
    THEN Returned(bestSize, m)
    ELSE LET mid == (low + high) \div 2
         IN IF Throws(m) THEN Thrown(Probed(m, mid))
            ELSE IF sizeFits(Measure(el, mid), containerWidth, containerHeight, fitMode)
                 THEN SearchLoop(el, mid + resolution, high, resolution, containerWidth,
                                 containerHeight, fitMode, mid, iterations + 1, Probed(m, mid))
                 ELSE SearchLoop(el, low, mid - resolution, resolution, containerWidth,
                                 containerHeight, fitMode, bestSize, iterations + 1, Probed(m, mid))

\* a loop whose counter lets one more iteration through
SearchOneMoreIteration(el, low, high, resolution, containerWidth, containerHeight, fitMode, m) ==
    SearchLoop(el, low, high, resolution, containerWidth, containerHeight, fitMode, low, -1, m)

\* a loop over a range that starts 1 px below low
SearchBelowRange(el, low, high, resolution, containerWidth, containerHeight, fitMode, m) ==
    SearchLoop(el, low - Px(1), high, resolution, containerWidth, containerHeight, fitMode,
               low, 0, m)

\* a loop whose best size starts at the upper end of its range
SearchStartsAtHigh(el, low, high, resolution, containerWidth, containerHeight, fitMode, m) ==
    SearchLoop(el, low, high, resolution, containerWidth, containerHeight, fitMode, high, 0, m)

binarySearchFontSize(el, low, high, resolution, containerWidth, containerHeight, fitMode, m) ==
    SearchLoop(el, low, high, resolution, containerWidth, containerHeight, fitMode, low, 0, m)

\* a sweep that also deletes the entries exactly as old as the lifetime
cleanupCacheInclusive(cache, now, sweep) ==
    IF sweep
    THEN LET expiredTime == now - CACHE_LIFETIME_MS
             kept == {k \in DOMAIN cache : ~(cache[k].timestamp <= expiredTime)}
         IN [k \in kept |-> cache[k]]
    ELSE cache

\* a sweep that deletes every entry
cleanupCacheClears(cache, now, sweep) == IF sweep THEN [k \in {} |-> 0] ELSE cache

\* the entries a sweep leaves; `sweep` is the outcome of Math.random() < 0.001
cleanupCache(cache, now, sweep) ==
    IF sweep
    THEN LET expiredTime == now - CACHE_LIFETIME_MS
             kept == {k \in DOMAIN cache : ~(cache[k].timestamp < expiredTime)}
         IN [k \in kept |-> cache[k]]
    ELSE cache

\* a key that holds the whole text
createCacheKeyFullText(containerWidth, containerHeight, text, fitMode, lineMode) ==
    <<MathRound(containerWidth), MathRound(containerHeight), text, fitMode, lineMode>>

\* a key that holds the container size as it was passed, not rounded
createCacheKeyUnrounded(containerWidth, containerHeight, text, fitMode, lineMode) ==
    LET textSample == IF Len(text) > 50
                      THEN SubSeq(text, 1, 50) \o Digits(Len(text))
                      ELSE text
    IN <<containerWidth, containerHeight, textSample, fitMode, lineMode>>

createCacheKey(containerWidth, containerHeight, text, fitMode, lineMode) ==
    LET textSample == IF Len(text) > 50
                      THEN SubSeq(text, 1, 50) \o Digits(Len(text))
                      ELSE text
    IN <<MathRound(containerWidth), MathRound(containerHeight), textSample, fitMode, lineMode>>

\* calculateSingleLineFontSize without the return at lines 165-167
SingleLineAlwaysSearches(el, minFontSize, maxFontSize, resolution, containerWidth, containerHeight, fitMode, m) ==
    IF Throws(m) THEN Thrown(Probed(m, maxFontSize))
    ELSE binarySearchFontSize(el, minFontSize, maxFontSize, resolution,
                              containerWidth, containerHeight, fitMode,
                              Probed(m, maxFontSize))

calculateSingleLineFontSize(el, minFontSize, maxFontSize, resolution, containerWidth, containerHeight, fitMode, m) ==
    IF Throws(m) THEN Thrown(Probed(m, maxFontSize))
    ELSE IF sizeFits(Measure(el, maxFontSize), containerWidth, containerHeight, fitMode)
         THEN Returned(maxFontSize, Probed(m, maxFontSize))
         ELSE binarySearchFontSize(el, minFontSize, maxFontSize, resolution,
                                   containerWidth, containerHeight, fitMode,
                                   Probed(m, maxFontSize))

\* Math.max(minFontSize, Math.min(maxFontSize, Math.sqrt(area / (length * 12)) * 0.8)),
\* the square root rounded down to a quarter pixel.  With W, H in half pixels
\* (w2, h2) the guess in quarter pixels is sqrt(16 * w2 * h2 / (75 * length)).
\* A length of 0 divides by zero: Infinity for a positive area.
\* a guess that takes the square root for an empty text to be 0
InitialGuessZeroForEmpty(text, minFontSize, maxFontSize, containerWidth, containerHeight) ==
    LET w2 == containerWidth \div (Unit \div 2)
        h2 == containerHeight \div (Unit \div 2)
        scaled == IF Len(text) = 0 THEN 0
                  ELSE QuarterPx(ISqrt((16 * w2 * h2) \div (75 * Len(text))))
    IN Max2(minFontSize, Min2(maxFontSize, scaled))

InitialGuess(text, minFontSize, maxFontSize, containerWidth, containerHeight) ==
    LET w2 == containerWidth \div (Unit \div 2)
        h2 == containerHeight \div (Unit \div 2)
        scaled == IF Len(text) = 0 THEN maxFontSize
                  ELSE QuarterPx(ISqrt((16 * w2 * h2) \div (75 * Len(text))))
    IN Max2(minFontSize, Min2(maxFontSize, scaled))

\* a multi-line search that goes to [minFontSize, guess] whether or not the
\* guess fits
MultiLineAlwaysDownward(el, text, minFontSize, maxFontSize, resolution, containerWidth, containerHeight, fitMode, m) ==
    IF Throws(m) THEN Thrown(Probed(m, maxFontSize))
    ELSE IF sizeFits(Measure(el, maxFontSize), containerWidth, containerHeight, fitMode)
    THEN Returned(maxFontSize, Probed(m, maxFontSize))
    ELSE LET initialGuess == InitialGuess(text, minFontSize, maxFontSize,
                                          containerWidth, containerHeight)
             m1 == Probed(m, maxFontSize)
             m2 == Probed(m1, initialGuess)
         IN IF Throws(m1) THEN Thrown(m2)
            ELSE binarySearchFontSize(el, minFontSize, initialGuess, resolution,
                                      containerWidth, containerHeight, fitMode, m2)

calculateMultiLineFontSize(el, text, minFontSize, maxFontSize, resolution, containerWidth, containerHeight, fitMode, m) ==
    IF Throws(m) THEN Thrown(Probed(m, maxFontSize))
    ELSE IF sizeFits(Measure(el, maxFontSize), containerWidth, containerHeight, fitMode)
    THEN Returned(maxFontSize, Probed(m, maxFontSize))
    ELSE LET initialGuess == InitialGuess(text, minFontSize, maxFontSize,
                                          containerWidth, containerHeight)
             m1 == Probed(m, maxFontSize)
             m2 == Probed(m1, initialGuess)
         IN IF Throws(m1) THEN Thrown(m2)
            ELSE IF sizeFits(Measure(el, initialGuess), containerWidth, containerHeight, fitMode)
                 THEN binarySearchFontSize(el, initialGuess, maxFontSize, resolution,
                                           containerWidth, containerHeight, fitMode, m2)
                 ELSE binarySearchFontSize(el, minFontSize, initialGuess, resolution,
                                           containerWidth, containerHeight, fitMode, m2)

\* lines 268-281 of calculateOptimalFontSize: the computation of a cache miss
\* (Search: the bestSize of lines 271-273; Compute: the clampedSize of line 275).
\* a = [el, containerWidth, containerHeight, minFontSize, maxFontSize,
\*      resolution, fitMode, lineMode]
Search(a, failAt) ==
    LET m0 == [probes |-> <<>>, failAt |-> failAt]
    IN IF a.lineMode = "single"
       THEN calculateSingleLineFontSize(a.el, a.minFontSize, a.maxFontSize,
                a.resolution, a.containerWidth, a.containerHeight, a.fitMode, m0)
       ELSE calculateMultiLineFontSize(a.el, a.el.textContent, a.minFontSize,
                a.maxFontSize, a.resolution, a.containerWidth, a.containerHeight,
                a.fitMode, m0)

\* a clamp that applies the lower bound first: Math.min(max, Math.max(min, best))
ComputeLowerBoundFirst(a, failAt) ==
    LET r == Search(a, failAt)
    IN IF r.threw THEN r
       ELSE [r EXCEPT !.size = Min2(a.maxFontSize, Max2(a.minFontSize, r.size))]

Compute(a, failAt) ==
    LET r == Search(a, failAt)
    IN IF r.threw THEN r
       ELSE [r EXCEPT !.size = Max2(a.minFontSize, Min2(a.maxFontSize, r.size))]

-----------------------------------------------------------------------------
(* The state machine: calls of calculateOptimalFontSize and the passing of *)
(* time between them.                                                      *)

NoCall == [called |-> FALSE]
EmptyCache == [k \in {} |-> 0]

\* document.body.appendChild(clone) in createTestClone
createTestClone(body) == body + 1

\* the wrapping rules a clone has: none when no clone is created
NoClone ==
    [whiteSpace |-> "", overflow |-> "", textOverflow |-> "", wordWrap |-> "",
     overflowWrap |-> ""]

\* a clone that never wraps, whatever the line mode
lineStylesNowrap(lineMode) ==
    [NoClone EXCEPT !.whiteSpace = "nowrap", !.overflow = "hidden",
                    !.textOverflow = "ellipsis"]

\* lineStyles in createTestClone (lines 127-129): the wrapping rules of
\* clone.style.cssText, which replaces the inline style copied by cloneNode
lineStyles(lineMode) ==
    IF lineMode = "single"
    THEN [NoClone EXCEPT !.whiteSpace = "nowrap", !.overflow = "hidden",
                         !.textOverflow = "ellipsis"]
    ELSE [NoClone EXCEPT !.whiteSpace = "normal", !.wordWrap = "break-word",
                         !.overflowWrap = "break-word"]

\* removeChild after the search instead of in a finally block
removeChildOnReturn(body, r) == IF r.threw THEN body ELSE body - 1

\* try { ... } finally { document.body.removeChild(clone) }: on return and on throw
removeChildFinally(body, r) == body - 1

\* a call that computes and returns without storing its result
CacheSetForgotten(cache, key, entry) == cache

\* fontSizeCache.set(cacheKey, { fontSize: clampedSize, timestamp: now })
CacheSet(cache, key, entry) ==
    [k \in DOMAIN cache \cup {key} |-> IF k = key THEN entry ELSE cache[k]]

\* the lookup with <= for <
CacheHitInclusive(cache, key, now) ==
    key \in DOMAIN cache /\ now - cache[key].timestamp <= CACHE_LIFETIME_MS

\* the lookup of lines 260-264
CacheHit(cache, key, now) ==
    key \in DOMAIN cache /\ now - cache[key].timestamp < CACHE_LIFETIME_MS

\* element.style before anything has written to it ("" is an unset property,
\* -1 an unset font size)
UnsetStyle ==
    [fontSize |-> -1, whiteSpace |-> "", overflow |-> "", textOverflow |-> "",
     wordWrap |-> "", overflowWrap |-> ""]

\* a search that sets the font sizes it measures on the element itself
elementStyleProbedInPlace(style, probes) ==
    IF probes = <<>> THEN style ELSE [style EXCEPT !.fontSize = probes[Len(probes)]]

\* the style of the element passed to calculateOptimalFontSize after the
\* call: cloneNode(true) copies the element, and clone.style.cssText (line
\* 132) and every clone.style.fontSize = ... of the search write to the copy
elementStyleAfterCall(style, probes) == style

\* a call that stores minFontSize as a fallback entry when a measurement throws
StoreFallbackOnThrow(cache, key, r, now, a) ==
    CacheSet(cache, key, [fontSize |-> IF r.threw THEN a.minFontSize ELSE r.size,
                          timestamp |-> now])

\* lines 268-281: fontSizeCache.set is the statement after the search inside
\* the try block, so a search that throws skips it
StoreResult(cache, key, r, now, a) ==
    IF r.threw THEN cache
    ELSE CacheSet(cache, key, [fontSize |-> r.size, timestamp |-> now])

KeyOf(a) ==
    createCacheKey(a.containerWidth, a.containerHeight, a.el.textContent, a.fitMode, a.lineMode)

\* What the call with inputs a has to do with the call before it, as seen
\* by the caller: whether that call had the same inputs and computed its
\* result on a cache miss (so that it wrote the entry of a's key), and then
\* its result and its time (-1 otherwise).
Before(a) ==
    IF last.called /\ ~last.hit /\ ~last.threw /\ last.args = a
    THEN [repeats |-> TRUE, prevResult |-> last.result, prevAt |-> last.at]
    ELSE [repeats |-> FALSE, prevResult |-> -1, prevAt |-> -1]

\* One whole call.  sweep: whether Math.random() < 0.001 in cleanupCache;
\* failAt: which measurement of this call throws (0: none).
\* last records what the call did: its inputs, its time, the timestamp of the
\* entry the lookup found under its key (-1: none), whether it was answered
\* from the cache, whether it threw, its result, the sizes it measured and
\* the number of clones it appended to document.body, and the wrapping rules
\* of the clone.
calculateOptimalFontSize(a, sweep, failAt) ==
    LET cacheKey == KeyOf(a)
        now == clock
        found == IF cacheKey \in DOMAIN fontSizeCache
                 THEN fontSizeCache[cacheKey].timestamp ELSE -1
        seen == [called |-> TRUE, args |-> a, at |-> now, found |-> found] @@ Before(a)
    IN IF CacheHit(fontSizeCache, cacheKey, now)
       THEN /\ last' = seen @@ [hit |-> TRUE, threw |-> FALSE,
                                result |-> fontSizeCache[cacheKey].fontSize,
                                probes |-> <<>>, clones |-> 0, cloneStyle |-> NoClone]
            /\ UNCHANGED <<fontSizeCache, clock, bodyChildren>>
       ELSE LET swept == cleanupCache(fontSizeCache, now, sweep)
                attached == createTestClone(bodyChildren)
                r == Compute(a, failAt)
            IN /\ fontSizeCache' = StoreResult(swept, cacheKey, r, now, a)
               /\ bodyChildren' = removeChildFinally(attached, r)
               /\ last' = seen @@ [hit |-> FALSE, threw |-> r.threw, result |-> r.size,
                                   probes |-> r.probes, clones |-> attached - bodyChildren,
                                   cloneStyle |-> lineStyles(a.lineMode)]
               /\ UNCHANGED clock

-----------------------------------------------------------------------------
(* Inputs *)

MaxClock == 30001
MaxFailAt == 2
TickSteps == {CACHE_LIFETIME_MS - 1, CACHE_LIFETIME_MS, CACHE_LIFETIME_MS + 1}

TestText == <<84, 101, 115, 116, 32, 116, 101, 120, 116>>     \* 'Test text'
ElTest == [textContent |-> TestText, widthMultiplier |-> 2, heightMultiplier |-> 1]

Args(els, widths, heights, bounds, resolutions, fitModes, lineModes) ==
    {[el |-> e, containerWidth |-> w, containerHeight |-> h,
      minFontSize |-> b[1], maxFontSize |-> b[2], resolution |-> r,
      fitMode |-> f, lineMode |-> l] :
        e \in els, w \in widths, h \in heights, b \in bounds,
        r \in resolutions, f \in fitModes, l \in lineModes}

\* calls that share few cache keys, so that hits on entries written by
\* calls with other bounds and other container sizes happen
CallArgs ==
    Args({ElTest}, {HalfPx(199), Px(100)}, {Px(200)},
         {<<Px(10), Px(100)>>, <<Px(60), Px(100)>>, <<Px(10), Px(40)>>, <<Px(10), Px(50)>>, <<Px(50), Px(20)>>},
         {HalfPx(1)}, {"width"}, {"single", "multi"})

Tick ==
    /\ \E d \in TickSteps : clock + d <= MaxClock /\ clock' = clock + d
    /\ UNCHANGED <<fontSizeCache, bodyChildren, last, textStyle, checkVars, hookVars>>

\* a direct call of calculateOptimalFontSize on the text element
DirectCall(a, sweep, failAt) ==
    /\ calculateOptimalFontSize(a, sweep, failAt)
    /\ textStyle' = elementStyleAfterCall(textStyle, last'.probes)
    /\ UNCHANGED <<checkVars, hookVars>>

Resolve ==
    \E a \in CallArgs, sweep \in BOOLEAN, failAt \in 0..MaxFailAt :
        DirectCall(a, sweep, failAt)

\* Strings of a computed style, as sequences of character codes
Str0px == <<48, 112, 120>>                          \* '0px'
Str10px == <<49, 48, 112, 120>>                     \* '10px'

\* useRef(null)
NullRef == [isNull |-> TRUE]

\* an element of the page: its box and the paddings of its computed style
\* (strings such as '10px')
Box(clientWidth, clientHeight, paddingX, paddingY) ==
    [clientWidth |-> clientWidth, clientHeight |-> clientHeight,
     paddingLeft |-> paddingX, paddingRight |-> paddingX,
     paddingTop |-> paddingY, paddingBottom |-> paddingY]

\* no component is mounted; the page holds a container of 100 x 200 px
\* and the text element
Unmounted ==
    /\ mounted = FALSE
    /\ render = [rendered |-> FALSE]
    /\ fontSize = -1
    /\ containerRef = FALSE
    /\ textRef = FALSE
    /\ container = Box(Px(100), Px(200), Str0px, Str0px)
    /\ textEl = ElTest
    /\ calculatingRef = FALSE
    /\ prevDimensionsRef = NullRef
    /\ prevTextContentRef = NullRef
    /\ timers = {}
    /\ debounceTimerRef = 0
    /\ frames = {}
    /\ frameRef = 0
    /\ observers = 0
    /\ resizeObserverRef = "null"
    /\ pending = <<>>
    /\ note = NoCall
    /\ burst = NoCall
    /\ events = 0

Init ==
    /\ fontSizeCache = EmptyCache
    /\ clock = 0
    /\ bodyChildren = 0
    /\ last = NoCall
    /\ textStyle = UnsetStyle
    /\ fitCheck = NoCall
    /\ spaceCheck = NoCall
    /\ Unmounted

Next == Resolve \/ Tick

Spec == Init /\ [][Next]_vars

-----------------------------------------------------------------------------
(* The search as a function of its inputs: the first call of a process,    *)
(* which finds the cache empty, over a wide range of inputs.               *)

EmptyText == <<>>
LongText == [i \in 1..60 |-> 97]                               \* 60 times 'a'

SearchEls ==
    {ElTest,
     [textContent |-> EmptyText, widthMultiplier |-> 2, heightMultiplier |-> 1],
     [textContent |-> LongText, widthMultiplier |-> 1, heightMultiplier |-> 2],
     [textContent |-> TestText, widthMultiplier |-> 3, heightMultiplier |-> 1],
     [textContent |-> <<87>>, widthMultiplier |-> 5, heightMultiplier |-> 1]}     \* 'W'

SearchWidths == {Px(5), Px(99), HalfPx(199), Px(100)}
SearchHeights == {Px(5), Px(100), Px(200)}
SearchBounds ==
    {<<Px(10), Px(100)>>, <<Px(10), Px(40)>>, <<Px(60), Px(100)>>,
     <<Px(10), Px(10)>>, <<Px(50), Px(20)>>}
SearchResolutions == {0, HalfPx(1), Px(1)}
FitModes == {"width", "height", "both"}
LineModes == {"single", "multi"}

SearchArgs ==
    Args(SearchEls, SearchWidths, SearchHeights, SearchBounds, SearchResolutions,
         FitModes, LineModes)

FirstResolve ==
    /\ ~last.called
    /\ \E a \in SearchArgs, sweep \in BOOLEAN, failAt \in 0..MaxFailAt :
           DirectCall(a, sweep, failAt)

\* the same call once more, at the same time
RepeatResolve ==
    /\ last.called
    /\ ~last.hit
    /\ \E sweep \in BOOLEAN, failAt \in 0..MaxFailAt :
           DirectCall(last.args, sweep, failAt)

NextSearch == FirstResolve \/ RepeatResolve

SpecSearch == Init /\ [][NextSearch]_vars

-----------------------------------------------------------------------------
(* Calls for long texts: two texts of 60 characters with the same first 50 *)
(* characters, which render at different widths.                           *)

LongTextB == [i \in 1..60 |-> IF i <= 50 THEN 97 ELSE 98]    \* 50 times 'a', 10 times 'b'

LongEls ==
    {[textContent |-> LongText, widthMultiplier |-> 1, heightMultiplier |-> 2],
     [textContent |-> LongTextB, widthMultiplier |-> 2, heightMultiplier |-> 1]}

LongArgs ==
    Args(LongEls, {Px(99), Px(100)}, {Px(200)}, {<<Px(10), Px(100)>>}, {HalfPx(1)},
         {"width"}, {"single"})

ResolveLong ==
    \E a \in LongArgs, sweep \in BOOLEAN, failAt \in 0..MaxFailAt :
        DirectCall(a, sweep, failAt)

NextLong == ResolveLong \/ Tick

SpecLong == Init /\ [][NextLong]_vars

-----------------------------------------------------------------------------
(* The fit predicate as a function of its inputs: sizeFits called with     *)
(* text sizes and container sizes around each other.                       *)

FitLengths == {Px(50), Px(80), Px(100), HalfPx(301)}
FitContainers == {Px(80), Px(100), HalfPx(301)}

CheckFit ==
    \E w \in FitLengths, h \in FitLengths, cw \in FitContainers, ch \in FitContainers,
       f \in FitModes :
        /\ fitCheck' = [called |-> TRUE, textSize |-> [width |-> w, height |-> h],
                        containerWidth |-> cw, containerHeight |-> ch, fitMode |-> f,
                        result |-> sizeFits([width |-> w, height |-> h], cw, ch, f)]
        /\ UNCHANGED <<fontSizeCache, clock, bodyChildren, last, textStyle, spaceCheck,
                       hookVars>>

NextFits == CheckFit

SpecFits == Init /\ [][NextFits]_vars

-----------------------------------------------------------------------------
(* The available content space as a function of its inputs:                *)
(* getAvailableContentSpace called on elements whose computed style holds  *)
(* paddings smaller and larger than the box, empty and unparsable ones.    *)

\* padding strings, each with the number of px (in fixed point) it stands
\* for: 0 for a missing or unparsable value
StrEmpty == <<>>                                        \* ''
StrInvalid == <<105, 110, 118, 97, 108, 105, 100>>      \* 'invalid'
Str15px == <<49, 53, 112, 120>>                         \* '15px'
Str2p5px == <<50, 46, 53, 112, 120>>                    \* '2.5px'
Str30px == <<51, 48, 112, 120>>                         \* '30px'

Paddings ==
    {<<StrEmpty, 0>>, <<StrInvalid, 0>>, <<Str0px, 0>>, <<Str10px, Px(10)>>,
     <<Str15px, Px(15)>>, <<Str2p5px, HalfPx(5)>>, <<Str30px, Px(30)>>}

ClientWidths == {0, Px(10), Px(20), Px(200)}
ClientHeights == {0, Px(5), Px(100)}

\* one call in a behaviour: the function keeps no state between calls
CheckSpace ==
    \E cw \in ClientWidths, ch \in ClientHeights,
       pl \in Paddings, pr \in Paddings, pt \in Paddings, pb \in {<<Str0px, 0>>, <<Str30px, Px(30)>>} :
        LET element == [clientWidth |-> cw, clientHeight |-> ch,
                        paddingLeft |-> pl[1], paddingRight |-> pr[1],
                        paddingTop |-> pt[1], paddingBottom |-> pb[1]]
        IN /\ ~spaceCheck.called
           /\ spaceCheck' = [called |-> TRUE, element |-> element,
                             paddingLeft |-> pl[2], paddingRight |-> pr[2],
                             paddingTop |-> pt[2], paddingBottom |-> pb[2],
                             result |-> getAvailableContentSpace(element)]
           /\ UNCHANGED <<fontSizeCache, clock, bodyChildren, last, textStyle, fitCheck,
                          hookVars>>

NextSpace == CheckSpace

SpecSpace == Init /\ [][NextSpace]_vars

-----------------------------------------------------------------------------
(* useFitText.ts: one component that calls useFitText(options) and gives   *)
(* containerRef and textRef to two elements of the page.                   *)
(*                                                                         *)
(* React runs the work of a commit to its end before the browser delivers  *)
(* the next event: the cleanup of the layout effect, the layout effect and *)
(* the passive effect of a render are the steps listed in `pending`, and a *)
(* render that a setFontSize has made necessary comes before any timer,    *)
(* frame or notification.                                                  *)

\* the variables an invocation of calculateFontSize may write
calcVars ==
    <<fontSizeCache, clock, bodyChildren, last, textStyle, fontSize, calculatingRef,
      prevDimensionsRef, prevTextContentRef, note>>

\* timers, frames and observers
schedVars ==
    <<timers, debounceTimerRef, frames, frameRef, observers, resizeObserverRef, burst>>

\* the component and the page
compVars == <<mounted, render, containerRef, textRef, container, textEl>>

\* lines 62-75 of useFitText.ts
lineModeStyles(style, lineMode) ==
    IF lineMode = "single"
    THEN [style EXCEPT !.whiteSpace = "nowrap", !.overflow = "hidden",
                       !.textOverflow = "ellipsis"]
    ELSE [style EXCEPT !.whiteSpace = "normal", !.wordWrap = "break-word",
                       !.overflowWrap = "break-word", !.overflow = "visible",
                       !.textOverflow = "unset"]

Recorded(availableSpace) ==
    [isNull |-> FALSE, width |-> availableSpace.width, height |-> availableSpace.height]

RecordedText(text) == [isNull |-> FALSE, value |-> text]

\* the early returns without the check of the available size (lines 37-40)
EarlyReturnWithoutSpaceCheck(o, prevDimensions) ==
    IF ~containerRef \/ ~textRef THEN "noRef"
    ELSE IF calculatingRef THEN "calculating"
    ELSE LET availableSpace == getAvailableContentSpace(container)
         IN IF /\ prevDimensions = Recorded(availableSpace)
               /\ prevTextContentRef = RecordedText(textEl.textContent)
               /\ o.fontSize # o.options.maxFontSize
            THEN "unchanged"
            ELSE ""

\* the early returns without the check of calculatingRef.current (line 27)
EarlyReturnWithoutFlagCheck(o, prevDimensions) ==
    IF ~containerRef \/ ~textRef THEN "noRef"
    ELSE LET availableSpace == getAvailableContentSpace(container)
         IN IF availableSpace.width <= 0 \/ availableSpace.height <= 0 THEN "noSpace"
            ELSE IF /\ prevDimensions = Recorded(availableSpace)
                    /\ prevTextContentRef = RecordedText(textEl.textContent)
                    /\ o.fontSize # o.options.maxFontSize
                 THEN "unchanged"
                 ELSE ""

\* Lines 27-53: why an invocation returns before it calculates ("" when it
\* goes on).  o is the render whose calculateFontSize this is; prevDimensions
\* is prevDimensionsRef.current when the invocation starts.
EarlyReturn(o, prevDimensions) ==
    IF ~containerRef \/ ~textRef THEN "noRef"
    ELSE IF calculatingRef THEN "calculating"
    ELSE LET availableSpace == getAvailableContentSpace(container)
         IN IF availableSpace.width <= 0 \/ availableSpace.height <= 0 THEN "noSpace"
            ELSE IF /\ prevDimensions = Recorded(availableSpace)
                    /\ prevTextContentRef = RecordedText(textEl.textContent)
                    /\ o.fontSize # o.options.maxFontSize
                 THEN "unchanged"
                 ELSE ""

\* the arguments of the call at lines 77-86
CallOf(o) ==
    LET availableSpace == getAvailableContentSpace(container)
    IN [el |-> textEl,
        containerWidth |-> availableSpace.width,
        containerHeight |-> availableSpace.height,
        minFontSize |-> o.options.minFontSize,
        maxFontSize |-> o.options.maxFontSize,
        resolution |-> o.options.resolution,
        fitMode |-> o.options.fitMode,
        lineMode |-> o.options.lineMode]

\* a calculateFontSize that moves fontSize half of the way to the result
calculateFontSizeDamped(o, prevDimensions, via, since, sweep, failAt) ==
    LET why == EarlyReturn(o, prevDimensions)
        seen == [called |-> TRUE, via |-> via, since |-> since, at |-> clock,
                 notified |-> IF burst.called THEN burst.at ELSE -1]
    IN IF why # ""
       THEN /\ note' = seen @@ [outcome |-> why]
            /\ prevDimensionsRef' = prevDimensions
            /\ UNCHANGED <<fontSizeCache, clock, bodyChildren, last, textStyle, fontSize,
                           calculatingRef, prevTextContentRef>>
       ELSE LET styled == lineModeStyles(textStyle, o.options.lineMode)
            IN /\ calculateOptimalFontSize(CallOf(o), sweep, failAt)
               /\ prevDimensionsRef' = Recorded(getAvailableContentSpace(container))
               /\ prevTextContentRef' = RecordedText(textEl.textContent)
               /\ IF last'.threw
                  THEN /\ calculatingRef' = TRUE
                       /\ textStyle' = styled
                       /\ fontSize' = fontSize
                       /\ note' = seen @@ [outcome |-> "threw"]
                  ELSE LET halfway == (last'.result + o.fontSize) \div 2
                       IN /\ calculatingRef' = FALSE
                          /\ textStyle' = [styled EXCEPT !.fontSize = halfway]
                          /\ fontSize' = halfway
                          /\ note' = seen @@ [outcome |-> "calculated"]

\* a calculateFontSize that records the text before it checks the
\* available size
calculateFontSizeRecordsFirst(o, prevDimensions, via, since, sweep, failAt) ==
    LET why == EarlyReturn(o, prevDimensions)
        seen == [called |-> TRUE, via |-> via, since |-> since, at |-> clock,
                 notified |-> IF burst.called THEN burst.at ELSE -1]
    IN IF why # ""
       THEN /\ note' = seen @@ [outcome |-> why]
            /\ prevDimensionsRef' = prevDimensions
            /\ prevTextContentRef' = IF why \in {"noSpace", "unchanged"}
                                     THEN RecordedText(textEl.textContent)
                                     ELSE prevTextContentRef
            /\ UNCHANGED <<fontSizeCache, clock, bodyChildren, last, textStyle, fontSize,
                           calculatingRef>>
       ELSE LET styled == lineModeStyles(textStyle, o.options.lineMode)
            IN /\ calculateOptimalFontSize(CallOf(o), sweep, failAt)
               /\ prevDimensionsRef' = Recorded(getAvailableContentSpace(container))
               /\ prevTextContentRef' = RecordedText(textEl.textContent)
               /\ IF last'.threw
                  THEN /\ calculatingRef' = TRUE
                       /\ textStyle' = styled
                       /\ fontSize' = fontSize
                       /\ note' = seen @@ [outcome |-> "threw"]
                  ELSE /\ calculatingRef' = FALSE
                       /\ textStyle' = IF last'.result # o.fontSize
                                       THEN [styled EXCEPT !.fontSize = last'.result]
                                       ELSE styled
                       /\ fontSize' = IF last'.result # o.fontSize THEN last'.result
                                      ELSE fontSize
                       /\ note' = seen @@ [outcome |-> "calculated"]

\* One invocation of the calculateFontSize of render o (lines 26-96).
\* via: the caller ("layoutEffect", "effect" or "frame"); since: for a frame,
\* the time of the resize notification whose timer requested it (-1 else).
\* note records the invocation: its caller, its time, the time of the latest
\* resize notification before it (-1: none) and how it ended.
\* A throw of calculateOptimalFontSize leaves the function at line 77:
\* lines 89-95 do not run.
calculateFontSize(o, prevDimensions, via, since, sweep, failAt) ==
    LET why == EarlyReturn(o, prevDimensions)
        seen == [called |-> TRUE, via |-> via, since |-> since, at |-> clock,
                 notified |-> IF burst.called THEN burst.at ELSE -1]
    IN IF why # ""
       THEN /\ note' = seen @@ [outcome |-> why]
            /\ prevDimensionsRef' = prevDimensions
            /\ UNCHANGED <<fontSizeCache, clock, bodyChildren, last, textStyle, fontSize,
                           calculatingRef, prevTextContentRef>>
       ELSE LET styled == lineModeStyles(textStyle, o.options.lineMode)
            IN /\ calculateOptimalFontSize(CallOf(o), sweep, failAt)
               /\ prevDimensionsRef' = Recorded(getAvailableContentSpace(container))
               /\ prevTextContentRef' = RecordedText(textEl.textContent)
               /\ IF last'.threw
                  THEN /\ calculatingRef' = TRUE
                       /\ textStyle' = elementStyleAfterCall(styled, last'.probes)
                       /\ fontSize' = fontSize
                       /\ note' = seen @@ [outcome |-> "threw"]
                  ELSE /\ calculatingRef' = FALSE
                       /\ textStyle' =
                              IF last'.result # o.fontSize
                              THEN [elementStyleAfterCall(styled, last'.probes)
                                        EXCEPT !.fontSize = last'.result]
                              ELSE elementStyleAfterCall(styled, last'.probes)
                       /\ fontSize' = IF last'.result # o.fontSize THEN last'.result
                                      ELSE fontSize
                       /\ note' = seen @@ [outcome |-> "calculated"]

\* clearTimeout(id) / cancelAnimationFrame(id)
Without(callbacks, id) == {c \in callbacks : c.id # id}

\* the id setTimeout / requestAnimationFrame returns: a positive number that no
\* pending callback has
NewId(callbacks) ==
    CHOOSE i \in 1..(Cardinality(callbacks) + 1) :
        /\ \A c \in callbacks : c.id # i
        /\ \A j \in 1..(i - 1) : \E c \in callbacks : c.id = j

\* a handleResize that sets its timer without clearing the one before
handleResizeWithoutClear(o) ==
    LET id == NewId(timers)
    IN /\ timers' = timers \cup {[id |-> id, due |-> clock + o.options.debounceDelay,
                                  setAt |-> clock]}
       /\ debounceTimerRef' = id

\* handleResize of render o (lines 98-112), called by the ResizeObserver
handleResize(o) ==
    LET kept == IF debounceTimerRef # 0 THEN Without(timers, debounceTimerRef) ELSE timers
        id == NewId(kept)
    IN /\ timers' = kept \cup {[id |-> id, due |-> clock + o.options.debounceDelay,
                                setAt |-> clock]}
       /\ debounceTimerRef' = id

\* a timer callback that requests its frame without cancelling the one before
debounceCallbackWithoutCancel(t) ==
    LET id == NewId(frames)
    IN /\ frames' = frames \cup {[id |-> id, since |-> t.setAt]}
       /\ frameRef' = id

\* the callback of the debounce timer (lines 103-111)
debounceCallback(t) ==
    LET kept == IF frameRef # 0 THEN Without(frames, frameRef) ELSE frames
        id == NewId(kept)
    IN /\ frames' = kept \cup {[id |-> id, since |-> t.setAt]}
       /\ frameRef' = id

\* a cleanup function that disconnects the observer and clears the timer,
\* and leaves a requested animation frame pending
cleanupWithoutCancel ==
    /\ observers' = IF resizeObserverRef = "connected" THEN observers - 1 ELSE observers
    /\ resizeObserverRef' = IF resizeObserverRef = "null" THEN "null" ELSE "disconnected"
    /\ frames' = frames
    /\ timers' = IF debounceTimerRef # 0 THEN Without(timers, debounceTimerRef) ELSE timers
    /\ UNCHANGED <<frameRef, debounceTimerRef>>

\* the cleanup function of the layout effect (lines 126-138)
cleanup ==
    /\ observers' = IF resizeObserverRef = "connected" THEN observers - 1 ELSE observers
    /\ resizeObserverRef' = IF resizeObserverRef = "null" THEN "null" ELSE "disconnected"
    /\ frames' = IF frameRef # 0 THEN Without(frames, frameRef) ELSE frames
    /\ timers' = IF debounceTimerRef # 0 THEN Without(timers, debounceTimerRef) ELSE timers
    /\ UNCHANGED <<frameRef, debounceTimerRef>>

-----------------------------------------------------------------------------
(* The component's life *)

MaxHookClock == 250
MaxEvents == 3
MaxHookFailAt == 1
HookTick == 50

DefaultOptions ==
    [minFontSize |-> Px(10), maxFontSize |-> Px(100), resolution |-> HalfPx(1),
     fitMode |-> "width", lineMode |-> "single", debounceDelay |-> 100]

\* the default values of the parameters of useFitText (lines 9-14)
ParameterDefaults ==
    [minFontSize |-> Px(1), maxFontSize |-> Px(100), resolution |-> HalfPx(1),
     fitMode |-> "both", lineMode |-> "multi", debounceDelay |-> 100]

\* the destructuring of the options object (lines 8-15): a property that
\* the caller has not given takes its default value
Destructure(given) ==
    [k \in DOMAIN ParameterDefaults |->
        IF k \in DOMAIN given THEN given[k] ELSE ParameterDefaults[k]]

\* useFitText(): an options object without properties
NoOptions == [k \in {} |-> 0]

HookOptions ==
    {DefaultOptions,
     [DefaultOptions EXCEPT !.maxFontSize = Px(40)],
     Destructure(NoOptions)}

\* containers with 100 x 200, 40 x 200 and 0 x 200 px of available space
Containers ==
    {Box(Px(100), Px(200), Str0px, Str0px), Box(Px(60), Px(200), Str10px, Str0px),
     Box(Px(20), Px(200), Str10px, Str0px)}

ElShort == [textContent |-> <<72, 105>>, widthMultiplier |-> 1, heightMultiplier |-> 1]
HookTexts == {ElTest, ElShort}

\* no work of a commit is left, and the latest render has seen the latest state
Settled == pending = <<>> /\ (mounted => fontSize = render.fontSize)

\* the values of the options that calculateFontSize depends on
CalcDeps(opt) ==
    <<opt.minFontSize, opt.maxFontSize, opt.resolution, opt.fitMode, opt.lineMode>>

\* a hook that starts at the smallest size
initialStateMin(opt) == opt.minFontSize

\* useState<number>(maxFontSize) (line 18): the state at the first render
initialState(opt) == opt.maxFontSize

\* first render and commit: useState(maxFontSize), the refs get their elements
Mount ==
    /\ ~mounted
    /\ ~render.rendered
    /\ \E opt \in HookOptions, c \in Containers, hasContainer \in BOOLEAN, hasText \in BOOLEAN :
          /\ render' = [rendered |-> TRUE, options |-> opt, fontSize |-> initialState(opt)]
          /\ fontSize' = initialState(opt)
          /\ container' = c
          /\ containerRef' = hasContainer
          /\ textRef' = hasText
    /\ mounted' = TRUE
    /\ pending' = <<"layoutEffect", "effect">>
    /\ UNCHANGED <<fontSizeCache, clock, bodyChildren, last, textStyle, checkVars, textEl,
                   calculatingRef, prevDimensionsRef, prevTextContentRef, note, schedVars,
                   events>>

\* the cleanup of the layout effect runs: before the effect runs again, and
\* when the component is unmounted
RunCleanup ==
    /\ pending # <<>>
    /\ Head(pending) = "cleanup"
    /\ cleanup
    /\ burst' = IF burst.called THEN [burst EXCEPT !.cancelled = TRUE] ELSE burst
    /\ pending' = Tail(pending)
    /\ UNCHANGED <<calcVars, compVars, checkVars, events>>

\* an exception in an effect reaches React, which unmounts the component
\* (there is no error boundary); ranLayout: the layout effect of this commit
\* has returned its cleanup function
AfterEffect(ranLayout) ==
    IF note'.outcome = "threw"
    THEN /\ mounted' = FALSE
         /\ containerRef' = FALSE
         /\ textRef' = FALSE
         /\ pending' = IF ranLayout THEN <<"cleanup">> ELSE <<>>
    ELSE /\ pending' = Tail(pending)
         /\ UNCHANGED <<mounted, containerRef, textRef>>

\* useLayoutEffect (lines 115-139)
RunLayoutEffect ==
    /\ pending # <<>>
    /\ Head(pending) = "layoutEffect"
    /\ \E sweep \in BOOLEAN, failAt \in 0..MaxHookFailAt :
          calculateFontSize(render, prevDimensionsRef, "layoutEffect", -1, sweep, failAt)
    /\ AfterEffect(FALSE)
    /\ IF note'.outcome # "threw" /\ containerRef
       THEN observers' = observers + 1 /\ resizeObserverRef' = "connected"
       ELSE UNCHANGED <<observers, resizeObserverRef>>
    /\ UNCHANGED <<render, container, textEl, checkVars, timers, debounceTimerRef, frames,
                   frameRef, burst, events>>

\* useEffect (lines 142-147)
RunEffect ==
    /\ pending # <<>>
    /\ Head(pending) = "effect"
    /\ \E sweep \in BOOLEAN, failAt \in 0..MaxHookFailAt :
          calculateFontSize(render, NullRef, "effect", -1, sweep, failAt)
    /\ AfterEffect(TRUE)
    /\ UNCHANGED <<render, container, textEl, checkVars, schedVars, events>>

\* the render that follows a setFontSize with a new value: calculateFontSize
\* and handleResize are new functions, so both effects run again
Rerender ==
    /\ mounted
    /\ pending = <<>>
    /\ fontSize # render.fontSize
    /\ render' = [render EXCEPT !.fontSize = fontSize]
    /\ pending' = <<"cleanup", "layoutEffect", "effect">>
    /\ UNCHANGED <<calcVars, mounted, containerRef, textRef, container, textEl, checkVars,
                   schedVars, events>>

\* the component is rendered with other options
SetOptions ==
    /\ mounted
    /\ Settled
    /\ events < MaxEvents
    /\ events' = events + 1
    /\ \E opt \in HookOptions :
          /\ opt # render.options
          /\ render' = [render EXCEPT !.options = opt]
          /\ pending' = IF CalcDeps(opt) # CalcDeps(render.options)
                        THEN <<"cleanup", "layoutEffect", "effect">>
                        ELSE <<"cleanup", "layoutEffect">>
    /\ UNCHANGED <<calcVars, mounted, containerRef, textRef, container, textEl, checkVars,
                   schedVars>>

\* the text of the text element changes (the component is rendered with
\* other children and the same options: no dependency of an effect changes)
SetText ==
    /\ mounted
    /\ Settled
    /\ events < MaxEvents
    /\ events' = events + 1
    /\ \E e \in HookTexts : e # textEl /\ textEl' = e
    /\ UNCHANGED <<calcVars, mounted, render, containerRef, textRef, container, pending,
                   checkVars, schedVars>>

\* The container gets the box c and, when a ResizeObserver observes it, the
\* observer calls handleResize.  burst records the notification: its time,
\* how many notifications came less than debounceDelay after one another up
\* to it, how many frame callbacks requested by its timer have run, and
\* whether the cleanup function has run since.
ResizeNotification ==
    /\ mounted
    /\ Settled
    /\ events < MaxEvents
    /\ events' = events + 1
    /\ clock + render.options.debounceDelay <= MaxHookClock
    /\ \E c \in Containers : container' = c
    /\ IF observers > 0
       THEN /\ handleResize(render)
            /\ burst' = [called |-> TRUE, at |-> clock, runs |-> 0, cancelled |-> FALSE,
                         count |-> IF /\ burst.called
                                      /\ ~burst.cancelled
                                      /\ burst.runs = 0
                                      /\ clock - burst.at < render.options.debounceDelay
                                   THEN burst.count + 1 ELSE 1]
       ELSE UNCHANGED <<timers, debounceTimerRef, burst>>
    /\ UNCHANGED <<calcVars, mounted, render, containerRef, textRef, textEl, pending,
                   checkVars, frames, frameRef, observers, resizeObserverRef>>

\* time passes until the earliest timer is due (if it is not yet), and its
\* callback runs
TimerFires ==
    /\ Settled
    /\ \E t \in timers :
          /\ \A u \in timers : t.due <= u.due
          /\ clock' = Max2(clock, t.due)
          /\ timers' = timers \ {t}
          /\ debounceCallback(t)
    /\ UNCHANGED <<fontSizeCache, bodyChildren, last, textStyle, fontSize, calculatingRef,
                   prevDimensionsRef, prevTextContentRef, note, compVars, pending, checkVars,
                   debounceTimerRef, observers, resizeObserverRef, burst, events>>

\* the browser runs a requested animation frame callback (lines 108-110)
FrameFires ==
    /\ Settled
    /\ \E f \in frames :
          /\ frames' = frames \ {f}
          /\ \E sweep \in BOOLEAN, failAt \in 0..MaxHookFailAt :
                calculateFontSize(render, prevDimensionsRef, "frame", f.since, sweep, failAt)
          /\ burst' = IF burst.called /\ f.since = burst.at
                      THEN [burst EXCEPT !.runs = @ + 1] ELSE burst
    /\ UNCHANGED <<compVars, pending, checkVars, timers, debounceTimerRef, frameRef,
                   observers, resizeObserverRef, events>>

\* the component is unmounted: React empties the refs and runs the cleanup
Unmount ==
    /\ mounted
    /\ Settled
    /\ events < MaxEvents
    /\ events' = events + 1
    /\ mounted' = FALSE
    /\ containerRef' = FALSE
    /\ textRef' = FALSE
    /\ pending' = <<"cleanup">>
    /\ UNCHANGED <<calcVars, render, container, textEl, checkVars, schedVars>>

\* time passes while a timer is pending
Wait ==
    /\ timers # {}
    /\ clock + HookTick <= MaxHookClock
    /\ clock' = clock + HookTick
    /\ UNCHANGED <<fontSizeCache, bodyChildren, last, textStyle, checkVars, hookVars>>

NextHook ==
    \/ Mount \/ RunCleanup \/ RunLayoutEffect \/ RunEffect \/ Rerender \/ SetOptions
    \/ SetText \/ ResizeNotification \/ TimerFires \/ FrameFires \/ Unmount \/ Wait

SpecHook == Init /\ [][NextHook]_vars

-----------------------------------------------------------------------------
(* Vocabulary of the properties *)

\* the last call returned a value / computed it on a cache miss
ReturnedCall == last.called /\ ~last.threw
FreshCall == last.called /\ ~last.hit /\ ~last.threw

\* the text of call a, rendered at `size`, passes the fit predicate of a
FitsAt(a, size) ==
    sizeFits(Measure(a.el, size), a.containerWidth, a.containerHeight, a.fitMode)

\* every axis that a's fit mode constrains has room to spare at `size`
StrictlyFitsAt(a, size) ==
    LET t == Measure(a.el, size)
    IN /\ a.fitMode = "height" \/ t.width < a.containerWidth
       /\ a.fitMode = "width" \/ t.height < a.containerHeight

\* the value a call with inputs a computes when it misses the cache
FreshSize(a) == Compute(a, 0).size

-----------------------------------------------------------------------------
(* C2 *)

\* C2 (as stated): on a computing call, in either line mode, when the probe
\* at maxFontSize fits, the call returns exactly maxFontSize and that probe is
\* the only measurement, whatever the resolution.
C2_CeilingShortCircuit ==
    (FreshCall /\ FitsAt(last.args, last.args.maxFontSize))
        => /\ last.result = last.args.maxFontSize
           /\ last.probes = <<last.args.maxFontSize>>

\* C2 (amended): the same for calls with minFontSize <= maxFontSize; with
\* minFontSize > maxFontSize the final clamp returns minFontSize instead.
C2_CeilingShortCircuitValidBounds ==
    (/\ FreshCall
     /\ last.args.minFontSize <= last.args.maxFontSize
     /\ FitsAt(last.args, last.args.maxFontSize))
        => /\ last.result = last.args.maxFontSize
           /\ last.probes = <<last.args.maxFontSize>>

C2_Witness ==
    /\ FreshCall
    /\ last.args.lineMode = "multi"
    /\ last.args.minFontSize < last.args.maxFontSize
    /\ last.args.resolution > 0
    /\ FitsAt(last.args, last.args.maxFontSize)
    /\ last.result = last.args.maxFontSize
    /\ Len(last.probes) = 1

-----------------------------------------------------------------------------
(* C4 *)

\* C4: for a call that computes with a positive resolution, with the largest fitting size B inside
\* [minFontSize, maxFontSize] (the text fits at minFontSize and has no room
\* to spare at maxFontSize), the result fits (result <= B) and the size one
\* resolution above it no longer has room to spare (B - result <= resolution).
C4_Precision ==
    (/\ FreshCall
     /\ last.args.resolution > 0
     /\ last.args.minFontSize <= last.args.maxFontSize
     /\ FitsAt(last.args, last.args.minFontSize)
     /\ ~StrictlyFitsAt(last.args, last.args.maxFontSize))
        => /\ FitsAt(last.args, last.result)
           /\ ~StrictlyFitsAt(last.args, last.result + last.args.resolution)

-----------------------------------------------------------------------------
(* C5 *)

\* b is a with its container shrunk in axes that the fit mode constrains
Shrunk(a, b) ==
    /\ b = [a EXCEPT !.containerWidth = b.containerWidth,
                     !.containerHeight = b.containerHeight]
    /\ b.containerWidth <= a.containerWidth
    /\ b.containerHeight <= a.containerHeight
    /\ a.fitMode = "width" => b.containerHeight = a.containerHeight
    /\ a.fitMode = "height" => b.containerWidth = a.containerWidth

\* C5: a fresh computation on a shrunk container never returns more than the
\* fresh computation on the original container, in both line modes.
C5_Monotonicity ==
    FreshCall =>
        \A b \in SearchArgs : Shrunk(last.args, b) => FreshSize(b) <= last.result

-----------------------------------------------------------------------------
(* C6 *)

\* b differs from a only in the container axis that a's fit mode ignores
OtherAxisOnly(a, b) ==
    \/ /\ a.fitMode = "width"
       /\ b = [a EXCEPT !.containerHeight = b.containerHeight]
    \/ /\ a.fitMode = "height"
       /\ b = [a EXCEPT !.containerWidth = b.containerWidth]

\* C6: with fitMode 'width' the fresh result does not depend on the container
\* height, with fitMode 'height' not on the container width, in both line modes.
C6_AxisIndependence ==
    FreshCall =>
        \A b \in SearchArgs : OtherAxisOnly(last.args, b) => FreshSize(b) = last.result

-----------------------------------------------------------------------------
(* C1 *)

\* C1: every call made with minFontSize <= maxFontSize that returns, returns a
\* value within [minFontSize, maxFontSize] of that call, computed or cached.
C1_BoundsInvariant ==
    (ReturnedCall /\ last.args.minFontSize <= last.args.maxFontSize)
        => /\ last.args.minFontSize <= last.result
           /\ last.result <= last.args.maxFontSize

-----------------------------------------------------------------------------
(* C3 *)

\* C3: when the text does not fit the container at minFontSize, the call
\* returns exactly minFontSize (stated for calls with minFontSize <= maxFontSize,
\* the bounds the claim's example uses).
C3_FloorFallback ==
    (/\ ReturnedCall
     /\ last.args.minFontSize <= last.args.maxFontSize
     /\ ~FitsAt(last.args, last.args.minFontSize))
        => last.result = last.args.minFontSize

-----------------------------------------------------------------------------
(* C7 *)

Abs(x) == IF x >= 0 THEN x ELSE -x

-----------------------------------------------------------------------------
(* C8 *)

\* C8: a call is answered from the cache only by an entry of age < 30000 ms;
\* a call that finds an entry of age >= 30000 ms is not answered from it, it
\* measures, and when it returns the entry of its key holds the newly
\* computed result and the time of this call.
C8_CacheExpiry ==
    last.called =>
        /\ last.hit => (last.found >= 0 /\ last.at - last.found < CACHE_LIFETIME_MS)
        /\ (last.found >= 0 /\ last.at - last.found >= CACHE_LIFETIME_MS)
               => /\ ~last.hit
                  /\ Len(last.probes) >= 1
                  /\ ~last.threw =>
                        /\ last.result = FreshSize(last.args)
                        /\ KeyOf(last.args) \in DOMAIN fontSizeCache
                        /\ fontSizeCache[KeyOf(last.args)] =
                               [fontSize |-> last.result, timestamp |-> last.at]

C8_Witness ==
    /\ ReturnedCall
    /\ last.found = 0
    /\ last.at = CACHE_LIFETIME_MS
    /\ ~last.hit
    /\ Len(last.probes) >= 1
    /\ fontSizeCache[KeyOf(last.args)].timestamp = CACHE_LIFETIME_MS

-----------------------------------------------------------------------------
(* C9 *)

\* C9: every call that returns, returns the value a computation on its own
\* inputs gives, whether or not it was answered from the cache.
C9_CacheTransparency ==
    ReturnedCall => last.result = FreshSize(last.args)

-----------------------------------------------------------------------------
(* C10 *)

\* C10: between calls no probe clone is attached to document.body, whether
\* the last call returned or threw; a call answered from the cache appended
\* no clone, a call that missed the cache appended one.
C10_ProbeRelease ==
    /\ bodyChildren = 0
    /\ last.called => last.clones = (IF last.hit THEN 0 ELSE 1)

C10_Witness ==
    /\ last.called
    /\ last.threw
    /\ Len(last.probes) = 2
    /\ last.clones = 1
    /\ bodyChildren = 0

-----------------------------------------------------------------------------
(* C11 *)

\* the step is a call that threw
ThrowingCall == last'.called /\ last'.threw /\ last' # last

Expired(cache, k, now) == cache[k].timestamp < now - CACHE_LIFETIME_MS

-----------------------------------------------------------------------------
(* C12 *)

\* C12: every call ends (the search loop is bounded by MAX_ITERATIONS, for
\* every resolution, 0 included) after at most 1 + MAX_ITERATIONS
\* measurements in single-line mode and 2 + MAX_ITERATIONS in multi-line
\* mode; a call answered from the cache measures nothing.
C12_BoundedProbing ==
    last.called =>
        /\ last.hit => Len(last.probes) = 0
        /\ last.args.lineMode = "single" => Len(last.probes) <= 1 + MAX_ITERATIONS
        /\ last.args.lineMode = "multi" => Len(last.probes) <= 2 + MAX_ITERATIONS

\* a multi-line call with resolution 0 that used every allowed measurement
C12_Witness ==
    /\ FreshCall
    /\ last.args.lineMode = "multi"
    /\ last.args.resolution = 0
    /\ Len(last.probes) = 2 + MAX_ITERATIONS

-----------------------------------------------------------------------------
(* C13 *)

\* C13: sizeFits is true exactly when (the mode is 'height' or the width is
\* at most the container's) and (the mode is 'width' or the height is at
\* most the container's), equality included.
C13_FitPredicate ==
    fitCheck.called =>
        LET t == fitCheck.textSize
            widthOk == t.width <= fitCheck.containerWidth
            heightOk == t.height <= fitCheck.containerHeight
        IN /\ fitCheck.fitMode = "width" => (fitCheck.result <=> widthOk)
           /\ fitCheck.fitMode = "height" => (fitCheck.result <=> heightOk)
           /\ fitCheck.fitMode = "both" => (fitCheck.result <=> (widthOk /\ heightOk))

\* a text exactly as wide and as high as the container fits in mode 'both'
C13_Witness ==
    /\ fitCheck.called
    /\ fitCheck.fitMode = "both"
    /\ fitCheck.textSize.width = fitCheck.containerWidth
    /\ fitCheck.textSize.height = fitCheck.containerHeight
    /\ fitCheck.result

-----------------------------------------------------------------------------
(* C14 *)

\* the step is a call of calculateOptimalFontSize
CallStep == last'.called /\ last' # last

-----------------------------------------------------------------------------
(* C15 *)

\* the step is a call for a text longer than 50 characters that follows,
\* within the lifetime, a computing call for another text of the same length
\* and the same first 50 characters, with the same rounded container size,
\* fit mode and line mode
CollidingCall ==
    /\ FreshCall
    /\ CallStep
    /\ LET t == last.args.el.textContent
           u == last'.args.el.textContent
       IN /\ t # u
          /\ Len(t) > 50 /\ Len(u) = Len(t)
          /\ SubSeq(u, 1, 50) = SubSeq(t, 1, 50)
    /\ MathRound(last'.args.containerWidth) = MathRound(last.args.containerWidth)
    /\ MathRound(last'.args.containerHeight) = MathRound(last.args.containerHeight)
    /\ last'.args.fitMode = last.args.fitMode
    /\ last'.args.lineMode = last.args.lineMode
    /\ last'.at - last.at < CACHE_LIFETIME_MS

\* C15: such a call has the key of the call before it and returns the size
\* computed for the other text, without a measurement.
C15_KeyCollision ==
    [][CollidingCall =>
          /\ KeyOf(last'.args) = KeyOf(last.args)
          /\ last'.hit
          /\ last'.result = last.result
          /\ last'.probes = <<>>]_vars

\* a call for a long text was answered with a size that a computation for
\* its own text does not give
C15_Witness ==
    /\ last.called
    /\ last.hit
    /\ Len(last.args.el.textContent) > 50
    /\ last.result # FreshSize(last.args)

-----------------------------------------------------------------------------
(* C16 *)

\* a timer or a frame of the latest resize notification has still to run
BurstPending ==
    \/ \E t \in timers : t.setAt = burst.at
    \/ \E f \in frames : f.since = burst.at

\* the invocations of calculateFontSize that resize notifications lead to:
\* each runs in a frame, debounceDelay or more after the notification that
\* set its timer, and no notification came in between less than debounceDelay
\* after that one; the latest notification has a timer or a frame pending
\* until its one invocation has run (or the cleanup function has cancelled
\* it), and nothing pending after it
DebouncedInvocation ==
    /\ (note.called /\ note.via = "frame") =>
           /\ note.at >= note.since + DefaultOptions.debounceDelay
           /\ \/ note.notified = note.since
              \/ note.notified >= note.since + DefaultOptions.debounceDelay
    /\ burst.called =>
           /\ burst.runs <= 1
           /\ (burst.runs = 0 /\ ~burst.cancelled) => BurstPending
           /\ burst.runs = 1 => ~BurstPending

-----------------------------------------------------------------------------
(* C17 *)

\* the hook is mounted with both refs attached, has run the effects of its
\* latest render, and the container has a positive available size
Attached ==
    /\ mounted
    /\ Settled
    /\ containerRef
    /\ textRef
    /\ getAvailableContentSpace(container).width > 0
    /\ getAvailableContentSpace(container).height > 0

\* the latest calculation was made for the container's available size and
\* fontSize is the value it returned
CalculatedForContainer ==
    LET availableSpace == getAvailableContentSpace(container)
    IN /\ prevDimensionsRef = Recorded(availableSpace)
       /\ last.called
       /\ ~last.threw
       /\ last.args.containerWidth = availableSpace.width
       /\ last.args.containerHeight = availableSpace.height
       /\ fontSize = last.result

\* the latest calculation was started for the container's available size
\* and a measurement threw in it
ThrownForContainer ==
    LET availableSpace == getAvailableContentSpace(container)
    IN /\ last.called
       /\ last.threw
       /\ last.args.containerWidth = availableSpace.width
       /\ last.args.containerHeight = availableSpace.height

\* C17: after a resize notification that leaves a positive available size,
\* the calculation for that size has been made and fontSize is its result
\* (or that calculation threw), or a timer or a frame that leads to it is
\* pending.
C17_Responsiveness ==
    (Attached /\ burst.called)
        => (BurstPending \/ CalculatedForContainer \/ ThrownForContainer)

-----------------------------------------------------------------------------
(* C18 *)

\* both refs are attached and the container has a positive available size
Ready ==
    /\ containerRef
    /\ textRef
    /\ getAvailableContentSpace(container).width > 0
    /\ getAvailableContentSpace(container).height > 0

\* the step runs the passive effect, the effect that runs again after a
\* render with a changed minFontSize, maxFontSize, resolution, fitMode or
\* lineMode
EffectStep == pending # <<>> /\ Head(pending) = "effect" /\ pending' # pending

\* the step is the first run of the passive effect after a render with
\* changed options: the latest calculation was made with other options, for
\* the same dimensions and the same text
AfterOptionChange ==
    /\ EffectStep
    /\ last.called
    /\ last.args # CallOf(render)
    /\ last.args.el = textEl
    /\ prevTextContentRef = RecordedText(textEl.textContent)
    /\ last.args.containerWidth = getAvailableContentSpace(container).width
    /\ last.args.containerHeight = getAvailableContentSpace(container).height

\* C18: in the commit that follows a change of options, with both refs
\* attached and a positive available size, calculateOptimalFontSize is called
\* with the new options, although dimensions and text are those of the
\* calculation before.
C18_RecalculationOnOptionChange ==
    [][(AfterOptionChange /\ Ready) =>
          /\ note'.outcome \in {"calculated", "threw"}
          /\ last'.called
          /\ last'.args = CallOf(render)]_vars

-----------------------------------------------------------------------------
(* C19 *)

\* the latest calculation was made for the text the text element has now
CalculatedForText ==
    /\ prevTextContentRef = RecordedText(textEl.textContent)
    /\ last.called
    /\ last.args.el = textEl

\* C19: while the hook is mounted with both refs attached, a positive
\* available size and no calculation cut short by an exception, the latest
\* calculation was made for the present text, or a step that leads to a
\* calculation (an effect, a render, a timer or a frame) is pending.
C19_RecalculationOnTextChange ==
    (Attached /\ ~calculatingRef)
        => (CalculatedForText \/ timers # {} \/ frames # {})

-----------------------------------------------------------------------------
(* C20 *)

\* C20: no step of the mounted hook taken while containerRef or textRef is
\* null, or while the available width or height is 0 or less, calls
\* calculateOptimalFontSize (no call is observed, the cache and the document
\* stay as they are), and fontSize and the style of the text element stay
\* as they are.
C20_GuardedCalculation ==
    [][(mounted /\ ~Ready) =>
          UNCHANGED <<last, fontSizeCache, bodyChildren, fontSize, textStyle>>]_vars

\* after a calculation the container has shrunk to no available width, and
\* the invocation in the frame of that resize has returned without a call
C20_Witness ==
    /\ mounted
    /\ note.called
    /\ note.via = "frame"
    /\ note.outcome = "noSpace"
    /\ getAvailableContentSpace(container).width = 0
    /\ last.called
    /\ ~last.threw
    /\ fontSize = last.result
    /\ textStyle.fontSize = last.result

-----------------------------------------------------------------------------
(* C21 *)

\* the step runs the frame callback of a debounced resize
FrameStep ==
    /\ \E f \in frames : frames' = frames \ {f}
    /\ timers' = timers
    /\ pending' = pending

\* the available dimensions, the text and the options are those of the last
\* performed calculation, which has returned
UnchangedSinceCalculation ==
    /\ Ready
    /\ ~calculatingRef
    /\ prevDimensionsRef = Recorded(getAvailableContentSpace(container))
    /\ prevTextContentRef = RecordedText(textEl.textContent)
    /\ last.called
    /\ ~last.threw
    /\ last.args = CallOf(render)
    /\ fontSize = last.result

\* C21: a debounced resize that finds the available dimensions, the text and
\* the options of the last performed calculation does not call
\* calculateOptimalFontSize again, whatever value that calculation produced.
C21_SkipWhenUnchanged ==
    [][(FrameStep /\ UnchangedSinceCalculation) =>
          /\ note'.outcome = "unchanged"
          /\ last' = last]_vars

-----------------------------------------------------------------------------
(* C22 *)

\* the component has been unmounted (by its parent, or by React after an
\* exception in an effect)
AfterUnmount == ~mounted /\ render.rendered

\* C22: once the component is unmounted and the cleanup function has run, no
\* ResizeObserver observes the container, no timer and no animation frame of
\* the hook is pending; and no step after the unmount invokes
\* calculateFontSize, calls calculateOptimalFontSize or changes fontSize or
\* the style of the text element.
C22_UnmountCleanup ==
    /\ []((AfterUnmount /\ pending = <<>>) =>
             /\ observers = 0
             /\ resizeObserverRef # "connected"
             /\ timers = {}
             /\ frames = {})
    /\ [][AfterUnmount =>
             UNCHANGED <<note, last, fontSize, textStyle, fontSizeCache, bodyChildren>>]_vars

\* the component was unmounted while the animation frame of its one resize
\* notification was pending: the timer has fired, the frame has not run
C22_Witness ==
    /\ AfterUnmount
    /\ pending = <<>>
    /\ events = 2
    /\ burst.called
    /\ burst.cancelled
    /\ burst.runs = 0
    /\ frameRef # 0
    /\ resizeObserverRef = "disconnected"
    /\ frames = {}

\* the component was unmounted while the debounce timer was pending
C22_WitnessTimer ==
    /\ AfterUnmount
    /\ pending = <<>>
    /\ events = 2
    /\ burst.called
    /\ burst.cancelled
    /\ frameRef = 0
    /\ debounceTimerRef # 0
    /\ timers = {}

-----------------------------------------------------------------------------
(* C23 *)

\* the step invokes calculateFontSize
InvocationStep == note'.called /\ note' # note

\* C23: a calculation runs from its start to its end within one step (no
\* effect, timer or frame callback runs inside another), and it starts only
\* while the calculating flag is clear: a step taken while the flag is set
\* calls and measures nothing, leaves the cache, the style of the text
\* element, fontSize and the recorded text as they are, and an invocation of
\* calculateFontSize in such a step returns at its first check.
C23_NoConcurrentCalculations ==
    [][calculatingRef =>
          /\ UNCHANGED <<last, fontSizeCache, bodyChildren, textStyle, fontSize,
                         prevTextContentRef>>
          /\ InvocationStep => note'.outcome \in {"calculating", "noRef"}]_vars

\* with both refs attached and a positive available size, an invocation in
\* a frame has found the flag set and has returned without a call
C23_Witness ==
    /\ mounted
    /\ Ready
    /\ calculatingRef
    /\ note.called
    /\ note.via = "frame"
    /\ note.outcome = "calculating"
    /\ last.called
    /\ last.at < note.at

-----------------------------------------------------------------------------
(* C24 *)

\* the step is the first render of the component
FirstRender == ~render.rendered /\ render'.rendered

\* C24: the first render returns the maxFontSize of its options as fontSize
\* (100 px when the caller gives none); after that the fontSize state changes
\* only in a step in which a calculation returns a value other than the
\* fontSize of the render it belongs to, and then to that value (a render
\* with other options does not change it); and every later render returns
\* the fontSize state.
C24_InitialValue ==
    [][/\ FirstRender =>
              /\ fontSize' = render'.options.maxFontSize
              /\ render'.fontSize = fontSize'
              /\ render'.options = Destructure(NoOptions) => render'.fontSize = Px(100)
       /\ (render.rendered /\ fontSize' # fontSize) =>
              /\ InvocationStep
              /\ note'.outcome = "calculated"
              /\ last'.result # render.fontSize
              /\ fontSize' = last'.result
       /\ (render.rendered /\ render'.fontSize # render.fontSize) =>
              render'.fontSize = fontSize]_vars

\* no calculation has been made (a ref is null), the component has been
\* rendered again with a maxFontSize of 40 px, and fontSize still is the
\* 100 px of the first render
C24_Witness ==
    /\ mounted
    /\ Settled
    /\ ~last.called
    /\ note.called
    /\ events >= 1
    /\ render.options.maxFontSize = Px(40)
    /\ render.fontSize = Px(100)
    /\ fontSize = Px(100)

-----------------------------------------------------------------------------
(* C25 *)

\* C25: getAvailableContentSpace returns
\* width = max(0, clientWidth - paddingLeft - paddingRight) and
\* height = max(0, clientHeight - paddingTop - paddingBottom), a missing or
\* unparsable padding counted as 0, and neither component is negative.
C25_AvailableContentSpace ==
    spaceCheck.called =>
        LET e == spaceCheck.element
            r == spaceCheck.result
        IN /\ r.width = Max2(0, e.clientWidth - spaceCheck.paddingLeft - spaceCheck.paddingRight)
           /\ r.height = Max2(0, e.clientHeight - spaceCheck.paddingTop - spaceCheck.paddingBottom)
           /\ r.width >= 0
           /\ r.height >= 0

\* paddings larger than the box on one axis, an empty and an unparsable
\* padding on the other
C25_Witness ==
    /\ spaceCheck.called
    /\ spaceCheck.element.clientWidth = Px(20)
    /\ spaceCheck.element.paddingLeft = Str30px
    /\ spaceCheck.element.paddingRight = Str2p5px
    /\ spaceCheck.result.width = 0
    /\ spaceCheck.element.clientHeight = Px(100)
    /\ spaceCheck.element.paddingTop = StrInvalid
    /\ spaceCheck.element.paddingBottom = Str0px
    /\ spaceCheck.result.height = Px(100)

-----------------------------------------------------------------------------
(* C26 *)

\* the last call measured its clone at `size`
MeasuredAt(size) == \E i \in 1..Len(last.probes) : last.probes[i] = size

\* C26: a call that computes, in either line mode, returns minFontSize or a
\* size at which it has measured the text and found it to fit.
C26_ReturnedSizeWasMeasured ==
    FreshCall =>
        \/ last.result = last.args.minFontSize
        \/ MeasuredAt(last.result) /\ FitsAt(last.args, last.result)

\* a multi-line call whose guess did not fit and whose result is a midpoint
\* of the search below the guess
C26_Witness ==
    /\ FreshCall
    /\ last.args.lineMode = "multi"
    /\ Len(last.probes) >= 4
    /\ ~FitsAt(last.args, last.probes[2])
    /\ last.result > last.args.minFontSize
    /\ last.result < last.probes[2]
    /\ MeasuredAt(last.result)
    /\ FitsAt(last.args, last.result)

-----------------------------------------------------------------------------
(* C27 *)

\* the range [low0, high0] that call a gives to binarySearchFontSize, when the
\* text does not fit at maxFontSize
SearchRange(a) ==
    LET initialGuess == InitialGuess(a.el.textContent, a.minFontSize, a.maxFontSize,
                                     a.containerWidth, a.containerHeight)
    IN IF a.lineMode = "single" THEN [low |-> a.minFontSize, high |-> a.maxFontSize]
       ELSE IF FitsAt(a, initialGuess) THEN [low |-> initialGuess, high |-> a.maxFontSize]
       ELSE [low |-> a.minFontSize, high |-> initialGuess]

\* the measurements of the last call that binarySearchFontSize made: those
\* after the probe at maxFontSize and, in multi-line mode, the probe at the guess
SearchProbes ==
    LET before == IF last.args.lineMode = "single" THEN 1 ELSE 2
    IN SubSeq(last.probes, before + 1, Len(last.probes))

\* the last call has searched a range with low0 <= high0
Searched ==
    /\ FreshCall
    /\ ~FitsAt(last.args, last.args.maxFontSize)
    /\ SearchRange(last.args).low <= SearchRange(last.args).high

\* C27: every midpoint measured by binarySearchFontSize lies in [low0, high0];
\* the value it returns is low0 or a midpoint that fitted, and lies in
\* [low0, high0]; and for minFontSize <= maxFontSize the clamp of
\* calculateOptimalFontSize returns the search result as it is.
C27_SearchRespectsRange ==
    /\ Searched =>
          LET range == SearchRange(last.args)
              bestSize == Search(last.args, 0).size
          IN /\ \A i \in 1..Len(SearchProbes) :
                    range.low <= SearchProbes[i] /\ SearchProbes[i] <= range.high
             /\ \/ bestSize = range.low
                \/ \E i \in 1..Len(SearchProbes) :
                       SearchProbes[i] = bestSize /\ FitsAt(last.args, bestSize)
             /\ range.low <= bestSize /\ bestSize <= range.high
    /\ (FreshCall /\ last.args.minFontSize <= last.args.maxFontSize) =>
          last.result = Search(last.args, 0).size

\* a search with a positive resolution whose last midpoint is less than the
\* resolution away from an end of its range
C27_Witness ==
    /\ Searched
    /\ last.args.resolution > 0
    /\ Len(SearchProbes) >= 3
    /\ \E i \in 1..Len(SearchProbes) :
           \/ SearchProbes[i] - SearchRange(last.args).low < last.args.resolution
           \/ SearchRange(last.args).high - SearchProbes[i] < last.args.resolution
    /\ last.result = Search(last.args, 0).size

-----------------------------------------------------------------------------
(* C28 *)

\* clamp(0.8 * sqrt(W * H / (12 * length)), minFontSize, maxFontSize) for a
\* text of one character or more, in quarter pixels rounded down: with W and
\* H in half pixels, the largest r with r * r <= 16 * W * H / (75 * length)
ExpectedGuess(a) ==
    LET w2 == a.containerWidth \div (Unit \div 2)
        h2 == a.containerHeight \div (Unit \div 2)
        x == (16 * w2 * h2) \div (75 * Len(a.el.textContent))
        r == CHOOSE n \in 0..x : n * n <= x /\ x < (n + 1) * (n + 1)
    IN Max2(a.minFontSize, Min2(a.maxFontSize, QuarterPx(r)))

\* the last call is a multi-line computation for a text that does not fit at
\* maxFontSize
MultiLineSearched ==
    /\ FreshCall
    /\ last.args.lineMode = "multi"
    /\ last.args.minFontSize <= last.args.maxFontSize
    /\ Len(last.args.el.textContent) > 0
    /\ ~FitsAt(last.args, last.args.maxFontSize)

\* C28: such a call measures at maxFontSize, then once at the guess, and no
\* midpoint of the search is the guess; if the guess fits, the search runs
\* on [guess, maxFontSize] and the result is >= guess; otherwise it runs on
\* [minFontSize, guess] and the result is <= guess.
C28_MultiLineBranchChoice ==
    MultiLineSearched =>
        LET a == last.args
            guess == ExpectedGuess(a)
            low0 == IF FitsAt(a, guess) THEN guess ELSE a.minFontSize
            high0 == IF FitsAt(a, guess) THEN a.maxFontSize ELSE guess
        IN /\ Len(last.probes) >= 2
           /\ last.probes[1] = a.maxFontSize
           /\ last.probes[2] = guess
           /\ \A i \in 1..Len(SearchProbes) :
                  /\ SearchProbes[i] # guess
                  /\ low0 <= SearchProbes[i] /\ SearchProbes[i] <= high0
           /\ Len(SearchProbes) >= 1 => SearchProbes[1] = (low0 + high0) \div 2
           /\ Len(SearchProbes) = 0 => ~(high0 - low0 > a.resolution)
           /\ FitsAt(a, guess) => last.result >= guess
           /\ ~FitsAt(a, guess) => last.result <= guess

\* a guess strictly between the bounds that fits, and a search above it
\* that has found a larger size
C28_Witness ==
    /\ MultiLineSearched
    /\ last.probes[2] > last.args.minFontSize
    /\ last.probes[2] < last.args.maxFontSize
    /\ FitsAt(last.args, last.probes[2])
    /\ Len(SearchProbes) >= 2
    /\ last.result > last.probes[2]

\* a guess strictly between the bounds that does not fit, and a search
\* below it
C28_WitnessBelow ==
    /\ MultiLineSearched
    /\ last.probes[2] > last.args.minFontSize
    /\ last.probes[2] < last.args.maxFontSize
    /\ ~FitsAt(last.args, last.probes[2])
    /\ Len(SearchProbes) >= 2
    /\ last.result < last.probes[2]
    /\ last.result > last.args.minFontSize

-----------------------------------------------------------------------------
(* C29 *)

\* the last call is a multi-line computation for an empty text in a
\* container of positive area
EmptyTextCall ==
    /\ FreshCall
    /\ last.args.lineMode = "multi"
    /\ Len(last.args.el.textContent) = 0
    /\ last.args.containerWidth > 0
    /\ last.args.containerHeight > 0
    /\ last.args.minFontSize <= last.args.maxFontSize

\* C29: such a call, when the text does not fit at maxFontSize, measures at
\* the guess maxFontSize and then at the sizes the single-line search over
\* [minFontSize, maxFontSize] measures after its first; it returns the value
\* of that search, within the bounds.
C29_EmptyText ==
    EmptyTextCall =>
        LET a == last.args
            single == Compute([a EXCEPT !.lineMode = "single"], 0)
        IN /\ ~FitsAt(a, a.maxFontSize) =>
                 /\ Len(last.probes) >= 2
                 /\ last.probes[2] = a.maxFontSize
                 /\ SubSeq(last.probes, 3, Len(last.probes)) =
                        SubSeq(single.probes, 2, Len(single.probes))
           /\ last.result = single.size
           /\ a.minFontSize <= last.result
           /\ last.result <= a.maxFontSize

\* an empty text that does not fit at maxFontSize (the element has a box of
\* its own), with a result strictly between the bounds
C29_Witness ==
    /\ EmptyTextCall
    /\ ~FitsAt(last.args, last.args.maxFontSize)
    /\ Len(last.probes) >= 4
    /\ last.result > last.args.minFontSize
    /\ last.result < last.args.maxFontSize

-----------------------------------------------------------------------------
(* C30 *)

\* the step is a call that missed the cache (a call that repeats the call
\* before it in every respect shows only in what it does to the cache)
MissStep ==
    /\ CallStep \/ fontSizeCache' # fontSizeCache
    /\ last'.called
    /\ ~last'.hit
    /\ last'.at = clock'
    /\ clock' = clock

\* the entry that the call of this step stores: its result and its time
StoredEntry == [fontSize |-> last'.result, timestamp |-> last'.at]

\* the call of this step was answered from the cache: the cache stays as it
\* is, and the entry that served it is younger than the lifetime, counted
\* from the time it was written
HitLeavesCache ==
    (CallStep /\ last'.hit) =>
        /\ fontSizeCache' = fontSizeCache
        /\ last'.found = fontSizeCache[KeyOf(last'.args)].timestamp
        /\ last'.result = fontSizeCache[KeyOf(last'.args)].fontSize
        /\ last'.at - last'.found < CACHE_LIFETIME_MS

\* C30 (as stated): the cache changes only in a step that is a call which
\* missed the cache and returned, and then by exactly the entry of that
\* call's key, which holds the result and the time of the call; a call
\* answered from the cache leaves the cache, timestamps included, as it is.
C30_CacheWrites ==
    [][/\ fontSizeCache' # fontSizeCache =>
              /\ MissStep
              /\ ~last'.threw
              /\ fontSizeCache' = CacheSet(fontSizeCache, KeyOf(last'.args), StoredEntry)
       /\ HitLeavesCache]_vars

\* C30 (amended): the cache changes only in a step that is a call which
\* missed the cache; a call that returns stores the entry of its key, with
\* its result and its time; every other entry stays as it is or, if it is
\* older than the lifetime, is removed (by the sweep, also when the call
\* throws); no other entry is added.  A call answered from the cache leaves
\* the cache, timestamps included, as it is.
C30_CacheWritesAndSweep ==
    [][/\ fontSizeCache' # fontSizeCache => MissStep
       /\ MissStep =>
              LET key == KeyOf(last'.args)
              IN /\ ~last'.threw =>
                        /\ key \in DOMAIN fontSizeCache'
                        /\ fontSizeCache'[key] = StoredEntry
                 /\ \A k \in DOMAIN fontSizeCache' :
                        \/ k = key /\ ~last'.threw
                        \/ k \in DOMAIN fontSizeCache /\ fontSizeCache'[k] = fontSizeCache[k]
                 /\ \A k \in DOMAIN fontSizeCache \ DOMAIN fontSizeCache' :
                        Expired(fontSizeCache, k, clock)
       /\ HitLeavesCache]_vars

\* a call answered, 29999 ms after the entry was written, by an entry that
\* still carries the time of its computation, next to the entry of another key
C30_Witness ==
    /\ last.called
    /\ last.hit
    /\ last.at - last.found = CACHE_LIFETIME_MS - 1
    /\ fontSizeCache[KeyOf(last.args)].timestamp = last.found
    /\ Cardinality(DOMAIN fontSizeCache) >= 2

-----------------------------------------------------------------------------
(* C31 *)

\* the entries of the cache that are older than the lifetime at this moment
ExpiredKeys == {k \in DOMAIN fontSizeCache : Expired(fontSizeCache, k, clock)}

\* the entries that this step takes out of the cache or replaces
RemovedKeys == DOMAIN fontSizeCache \ DOMAIN fontSizeCache'

\* C31: entries leave the cache only in a call that missed the cache (a call
\* answered from the cache changes nothing, so a lookup deletes nothing);
\* the entries such a call removes are older than 30000 ms, none of them
\* would be returned by a lookup at that moment, and when it removes one it
\* removes every entry older than 30000 ms (the entry of its own key is
\* written again if the call returns); every other entry stays as it is.
C31_OpportunisticPruning ==
    [][/\ fontSizeCache' # fontSizeCache => MissStep
       /\ (CallStep /\ last'.hit) => fontSizeCache' = fontSizeCache
       /\ MissStep =>
              LET key == KeyOf(last'.args)
              IN /\ RemovedKeys \subseteq ExpiredKeys
                 /\ \A k \in RemovedKeys : ~CacheHit(fontSizeCache, k, clock)
                 /\ RemovedKeys # {} =>
                        \A k \in ExpiredKeys :
                            \/ k \in RemovedKeys
                            \/ k = key /\ ~last'.threw /\ fontSizeCache'[k].timestamp = clock
                 /\ \A k \in DOMAIN fontSizeCache \ (RemovedKeys \cup {key}) :
                        fontSizeCache'[k] = fontSizeCache[k]]_vars

\* a call that threw at its first measurement after the sweep had removed
\* the expired entry of its key and had left a younger entry of another key
C31_Witness ==
    /\ last.called
    /\ last.threw
    /\ Len(last.probes) = 1
    /\ last.found >= 0
    /\ last.at - last.found > CACHE_LIFETIME_MS
    /\ KeyOf(last.args) \notin DOMAIN fontSizeCache
    /\ \E k \in DOMAIN fontSizeCache : clock - fontSizeCache[k].timestamp < CACHE_LIFETIME_MS

\* a call that found the expired entry of its key, was not answered from it,
\* threw, and left the entry in the cache (no sweep has run)
C31_WitnessLookup ==
    /\ last.called
    /\ last.threw
    /\ last.found >= 0
    /\ last.at - last.found > CACHE_LIFETIME_MS
    /\ KeyOf(last.args) \in DOMAIN fontSizeCache
    /\ fontSizeCache[KeyOf(last.args)].timestamp = last.found

-----------------------------------------------------------------------------
(* C32 *)

\* calls a and b have the same text, fit mode and line mode, and container
\* sizes that differ and round to the same integers
SameRoundedContainer(a, b) ==
    /\ a.el.textContent = b.el.textContent
    /\ a.fitMode = b.fitMode
    /\ a.lineMode = b.lineMode
    /\ a.containerWidth # b.containerWidth \/ a.containerHeight # b.containerHeight
    /\ MathRound(a.containerWidth) = MathRound(b.containerWidth)
    /\ MathRound(a.containerHeight) = MathRound(b.containerHeight)

\* C32: a call that follows, within the cache lifetime, a call that computed
\* and returned a size for the same text, fit mode and line mode and for a
\* container whose size differs but rounds to the same integers, has the
\* same cache key, is answered from the cache with the first call's value,
\* and measures nothing.
C32_RoundedContainerKey ==
    [][(/\ CallStep
        /\ last.called /\ ~last.hit /\ ~last.threw
        /\ SameRoundedContainer(last.args, last'.args)
        /\ last'.at - last.at < CACHE_LIFETIME_MS)
           => /\ KeyOf(last'.args) = KeyOf(last.args)
              /\ last'.hit
              /\ last'.result = last.result
              /\ last'.probes = <<>>
              /\ last'.clones = 0]_vars

\* a call for a container 99.5 px wide was answered from the cache with the
\* size computed for a container 100 px wide, which is not the size that
\* its own container gives
C32_Witness ==
    /\ last.called
    /\ last.hit
    /\ last.args.containerWidth = HalfPx(199)
    /\ last.result = FreshSize([last.args EXCEPT !.containerWidth = Px(100)])
    /\ last.result # FreshSize(last.args)

-----------------------------------------------------------------------------
(* C33 *)

\* the step is an invocation of calculateFontSize that went past the early
\* returns: it applied the line-mode styles and called calculateOptimalFontSize
PerformedStep ==
    /\ note' # note \/ last' # last
    /\ note'.called
    /\ note'.outcome \in {"calculated", "threw"}

\* the wrapping style that README and useFitText.ts give for a line mode
WrappingOf(style, lineMode) ==
    IF lineMode = "single"
    THEN /\ style.whiteSpace = "nowrap"
         /\ style.overflow = "hidden"
         /\ style.textOverflow = "ellipsis"
    ELSE /\ style.whiteSpace = "normal"
         /\ style.wordWrap = "break-word"
         /\ style.overflowWrap = "break-word"
         /\ style.overflow = "visible"
         /\ style.textOverflow = "unset"

\* C33: after every invocation of calculateFontSize that is not skipped, the
\* wrapping style of the text element is that of the lineMode of the render
\* whose calculateFontSize ran ('single': nowrap, hidden, ellipsis; 'multi':
\* normal, break-word, visible, unset), the call was made with that
\* lineMode, and the clone it measured, if it made one, has white-space
\* nowrap for 'single' and normal for 'multi'.
C33_LineModeStyling ==
    [][PerformedStep =>
          /\ WrappingOf(textStyle', render.options.lineMode)
          /\ last'.called
          /\ last'.args.lineMode = render.options.lineMode
          /\ last'.clones > 0 =>
                 last'.cloneStyle.whiteSpace =
                     IF render.options.lineMode = "single" THEN "nowrap" ELSE "normal"]_vars

\* a 'multi' calculation that measured a clone: element and clone wrap
C33_Witness ==
    /\ note.called
    /\ note.outcome = "calculated"
    /\ last.called
    /\ last.args.lineMode = "multi"
    /\ last.clones = 1
    /\ last.cloneStyle.whiteSpace = "normal"
    /\ textStyle.whiteSpace = "normal"
    /\ textStyle.overflow = "visible"

\* a 'single' calculation after a 'multi' one on the same element
C33_WitnessSwitch ==
    /\ note.called
    /\ note.outcome = "calculated"
    /\ last.called
    /\ last.args.lineMode = "single"
    /\ last.clones = 1
    /\ last.cloneStyle.whiteSpace = "nowrap"
    /\ textStyle.whiteSpace = "nowrap"
    /\ textStyle.wordWrap = "break-word"

-----------------------------------------------------------------------------
(* C34 *)

\* C34: after a calculation that the hook has completed, the inline font
\* size of the text element is the fontSize of the hook's state, also when
\* the first calculation gives maxFontSize.
C34_AppliedSizeIsReportedSize ==
    (note.called /\ note.outcome = "calculated") => textStyle.fontSize = fontSize

-----------------------------------------------------------------------------
(* C35 *)

\* C35: an invocation of calculateFontSize in which calculateOptimalFontSize
\* throws leaves fontSize as it was and leaves the calculating flag clear,
\* so that a later invocation is not turned away by the flag.
C35_RecoveryAfterFailure ==
    [][(InvocationStep /\ note'.outcome = "threw")
           => (fontSize' = fontSize /\ ~calculatingRef')]_vars

-----------------------------------------------------------------------------
(* C36 *)
(* The hook with the container size, the text and the options it was      *)
(* mounted with: the only events are resize notifications that leave the  *)
(* container as it is.                                                    *)

\* the ResizeObserver reports the container, whose size has not changed
ResizeSame == ResizeNotification /\ container' = container

\* the work of a commit: React runs the cleanup and the effects of a render,
\* and renders again after a setFontSize with a new value
Commit == RunCleanup \/ RunLayoutEffect \/ RunEffect \/ Rerender

NextStable ==
    \/ Mount \/ RunCleanup \/ RunLayoutEffect \/ RunEffect \/ Rerender
    \/ ResizeSame \/ TimerFires \/ FrameFires \/ Wait

SpecStable == Init /\ [][NextStable]_vars

\* the values of pending: the stages of a commit that are left to run
PendingStages ==
    {<<>>, <<"cleanup">>, <<"effect">>, <<"layoutEffect">>, <<"layoutEffect", "effect">>,
     <<"cleanup", "layoutEffect">>, <<"cleanup", "layoutEffect", "effect">>}

\* Commit, told by what it does to pending.  Work is left exactly when the
\* hook is not settled (the guards of the four actions of Commit), every
\* step of Commit changes pending, and no other step taken while work is
\* left does.
CommitWork == ~Settled /\ pending' \in PendingStages /\ pending' # pending

\* React does not leave the effects of a commit or a scheduled render undone
SpecStableFair == SpecStable /\ WF_pending(CommitWork)

\* C36: with the container, the text and the options fixed, fontSize
\* changes only from its initial value maxFontSize, to the result of a
\* calculation (so it is set to one computed value at most); the hook is
\* rendered again only once, with that value; and from some moment on no
\* effect is left to run and the rendered fontSize is the state's (no loop
\* of renders and recalculations), whatever resize notifications with the
\* same size follow.
C36_Stabilisation ==
    /\ [][(mounted /\ fontSize' # fontSize)
              => /\ fontSize = render.options.maxFontSize
                 /\ note'.outcome = "calculated"
                 /\ fontSize' = last'.result]_vars
    /\ [][(render.rendered /\ render' # render)
              => /\ render.fontSize = render.options.maxFontSize
                 /\ render' = [render EXCEPT !.fontSize = fontSize]]_vars
    /\ <>[]Settled

\* the hook has settled on a computed size below maxFontSize, and the frame
\* of a later resize notification with the same size was skipped
C36_Witness ==
    /\ mounted
    /\ Settled
    /\ fontSize # render.options.maxFontSize
    /\ fontSize = last.result
    /\ note.called
    /\ note.via = "frame"
    /\ note.outcome = "unchanged"

\* the hook has stayed at maxFontSize, and the frame of a later resize
\* notification with the same size calculated again without a state update
C36_WitnessAtMax ==
    /\ mounted
    /\ Settled
    /\ fontSize = render.options.maxFontSize
    /\ note.called
    /\ note.via = "frame"
    /\ note.outcome = "calculated"
    /\ last.result = fontSize

-----------------------------------------------------------------------------
(* C37 *)

\* C37: at every moment the hook has one pending debounce timer at most,
\* one pending animation frame at most and one connected ResizeObserver at
\* most; the pending ones are those its refs hold (the timer before was
\* cleared, the frame before was cancelled, the observer before was
\* disconnected).
C37_SinglePendingWork ==
    /\ Cardinality(timers) <= 1
    /\ Cardinality(frames) <= 1
    /\ observers <= 1
    /\ \A t \in timers : t.id = debounceTimerRef
    /\ \A f \in frames : f.id = frameRef
    /\ observers = 1 => resizeObserverRef = "connected"

\* the frame requested for one resize notification and the timer set by the
\* next are pending together, and the observer is connected
C37_Witness ==
    /\ mounted
    /\ observers = 1
    /\ events >= 2
    /\ \E t \in timers, f \in frames : f.since < t.setAt

-----------------------------------------------------------------------------
(* C38 *)

\* the step runs the layout effect
LayoutEffectStep == pending # <<>> /\ Head(pending) = "layoutEffect" /\ pending' # pending

\* the ways in which calculateFontSize returns before it calculates
EarlyOutcomes == {"noRef", "calculating", "noSpace", "unchanged"}

\* the step holds an invocation of calculateFontSize that returned early
EarlyReturnStep ==
    /\ LayoutEffectStep \/ EffectStep \/ FrameStep
    /\ note'.called
    /\ note'.outcome \in EarlyOutcomes

\* C38: an invocation of calculateFontSize that returns early (a ref is
\* null, a calculation is in progress, no available size, or dimensions and
\* text unchanged) leaves the recorded dimensions as they were when it
\* started (null in the passive effect, which resets them before it invokes
\* calculateFontSize), and leaves the recorded text, the calculating flag,
\* the style of the text element and fontSize unchanged; it calls nothing.
C38_EarlyReturnsChangeNothing ==
    [][EarlyReturnStep =>
          /\ prevDimensionsRef' = IF EffectStep THEN NullRef ELSE prevDimensionsRef
          /\ UNCHANGED <<prevTextContentRef, calculatingRef, textStyle, fontSize>>
          /\ UNCHANGED <<last, fontSizeCache, bodyChildren>>]_vars

\* a frame found dimensions and text unchanged after a calculation whose
\* result is on the element
C38_Witness ==
    /\ note.called
    /\ note.via = "frame"
    /\ note.outcome = "unchanged"
    /\ ~prevDimensionsRef.isNull
    /\ ~prevTextContentRef.isNull
    /\ ~calculatingRef
    /\ textStyle.fontSize = fontSize

\* an effect found no available size where a calculation had been made before
C38_WitnessNoSpace ==
    /\ note.called
    /\ note.outcome = "noSpace"
    /\ ~prevTextContentRef.isNull
    /\ textStyle.fontSize > 0
    /\ last.called

-----------------------------------------------------------------------------
(* C39 *)

\* the bounds of the last call are inverted
InvalidBounds == last.args.minFontSize > last.args.maxFontSize

\* C39: a call with minFontSize > maxFontSize that is not answered from the
\* cache and returns, returns minFontSize, whatever was measured, and the
\* cache holds minFontSize under the call's key with the time of the call.
C39_InvalidBounds ==
    (FreshCall /\ InvalidBounds)
        => /\ last.result = last.args.minFontSize
           /\ KeyOf(last.args) \in DOMAIN fontSizeCache
           /\ fontSizeCache[KeyOf(last.args)] =
                  [fontSize |-> last.args.minFontSize, timestamp |-> last.at]

\* a call with inverted bounds searched, and returned and stored a
\* minFontSize at which the text does not fit
C39_Witness ==
    /\ FreshCall
    /\ InvalidBounds
    /\ Len(last.probes) >= 1
    /\ ~FitsAt(last.args, last.args.maxFontSize)
    /\ last.result = last.args.minFontSize
    /\ fontSizeCache[KeyOf(last.args)].fontSize = last.args.minFontSize

\* a call with inverted bounds whose text fits at maxFontSize measured once
\* and returned minFontSize, above maxFontSize
C39_WitnessFits ==
    /\ FreshCall
    /\ InvalidBounds
    /\ last.probes = <<last.args.maxFontSize>>
    /\ FitsAt(last.args, last.args.maxFontSize)
    /\ last.result > last.args.maxFontSize

====
